---- MODULE Spec2Model ----
(***************************************************************************)
(* A model of the session / memory / batching core of the chatbot:         *)
(*   src/context_manager.py  ContextManager (Conversation Store, Session   *)
(*                           Tracker, Impression Engine)                   *)
(*   src/global_memory.py    GlobalMemory (Global Directory)               *)
(*   src/main.py             webhook (Message Batcher, Response Decision   *)
(*                           Engine), periodic_save_loop, __main__         *)
(* Python dicts are functions whose DOMAIN is the set of keys present;     *)
(* Python lists are sequences; an object is a record of its fields.        *)
(***************************************************************************)
EXTENDS Integers, Sequences, FiniteSets, TLC

\* ------------------------------------------------------------------------
\* Bounds of the model (not program constants)
\* ------------------------------------------------------------------------
\* SpecStore: the largest window (max_messages) a store is constructed with
MaxWindow == 2
\* SpecStore: number of add_message calls in one behaviour
MaxAppends == 4
\* the wall clock runs from 0 to MaxTime
MaxTime == 3
\* SpecSession: the largest session_timeout a tracker is constructed with
MaxSessionTimeout == 2
\* SpecPersist: number of store operations in one behaviour
MaxPersistOps == 4
\* SpecImpression: number of messages the observed user sends
ImpressionRun == 45
\* SpecImpression: number of messages others (the bot, a second user) send
MaxOtherMessages == 1
\* SpecWebhook: number of webhook calls in one behaviour
MaxHandlers == 2
\* SpecLive: number of requests served in one behaviour
MaxLiveOps == 3
\* SpecMemory: number of Memory Record operations in one behaviour
MaxMemoryOps == 3
\* SpecDirectory: the largest max_impressions a directory is constructed with
MaxImpressions == 2
\* SpecDirectory: number of process_message calls in one behaviour
MaxObservations == 1
\* SpecEviction: max_messages is ImpressionMinMessages + EvictionWindowSlack
EvictionWindowSlack == 1
\* SpecEviction: number of messages the observed user sends
MaxEvictionRun == 12
\* SpecEviction: number of messages the others send
MaxEvictionOthers == 2
\* SpecBackground: number of background task runs (one per webhook call)
MaxRuns == 2
\* SpecBackground: number of messages the observed user sends
MaxBackgroundRun == 11
\* SpecGates: number of messages observed
MaxGateMessages == 4
\* SpecGates: the largest analysis threshold
MaxThreshold == 2
\* SpecTrigger: the longest text tried besides the two named ones
MaxTextLen == 3
\* observations and restarts of one behaviour of SpecCounts
MaxCountOps == 4
\* observations of one behaviour of SpecAnalysis
MaxAnalysisOps == 3
\* follow-up tasks scheduled in one behaviour of SpecFollowup
MaxFollowups == 1
\* SpecFollowup: the clock advances initial_delay seconds at a time, this often
MaxFollowupWaits == 2
\* SpecRolling: number of messages the observed user sends
MaxRollingRun == 220
\* SpecSummary: the clock ticks that make one hour
TicksPerHour == 2
\* SpecSummary: max_messages is messages_between_updates + SummaryWindowSlack
SummaryWindowSlack == 1

\* ------------------------------------------------------------------------
\* Program constants
\* ------------------------------------------------------------------------
\* "If fewer than 10 messages, not enough to form an impression yet"
ImpressionMinMessages == 10
\* "We have at least 30 new messages since the last update"
ImpressionDelta == 30
\* "Use most recent 50 messages max"
ImpressionSampleSize == 50
\* Python's None where the code stores a time (last_interaction)
NoneTime == -1
\* context_settings.get("max_messages", 200)
DefaultMaxMessages == 200
\* GlobalMemory.__init__ without a configuration: default_thresholds and
\* max_saved_impressions
DefaultAnalysisThreshold == 100
\* process_pending_analyses(client, max_profiles=3, max_relationships=2)
max_profiles == 3
\* process_followup_queue: initial_delay = 5
initial_delay == 5
max_relationships == 2
DefaultMaxSavedImpressions == 5
\* process_pending_impressions(max_to_process=3)
max_to_process == 3
\* MESSAGE_BATCH_TIMEOUT = 2 (seconds)
MESSAGE_BATCH_TIMEOUT == 2
\* FORWARD_BATCH_TIMEOUT = 3 (seconds)
FORWARD_BATCH_TIMEOUT == 3
\* ContextCache.messages_between_updates
messages_between_updates == 20
\* ContextCache.hours_between_updates
hours_between_updates == 1

None == "None"
Chats == {"c1", "c2"}
Users == {"u1", "u2"}
\* the display name a sender carries (message['from']['username'])
NameOf(u) == IF u = "u1" THEN "ann" ELSE IF u = "u2" THEN "bob" ELSE "Anya"
BotName == "Anya"

\* ------------------------------------------------------------------------
\* dict helpers
\* ------------------------------------------------------------------------
EmptyDict == <<>>
Has(d, k) == k \in DOMAIN d
Get(d, k, default) == IF k \in DOMAIN d THEN d[k] ELSE default
Put(d, k, v) == (k :> v) @@ d
Del(d, k) == [x \in DOMAIN d \ {k} |-> d[x]]
\* list[-n:]
LastN(s, n) == IF Len(s) <= n THEN s ELSE SubSeq(s, Len(s) - n + 1, Len(s))
\* value in list
InList(s, v) == \E i \in 1..Len(s) : s[i] = v

\* [msg for msg in msgs if not msg["is_bot"] and str(msg.get("user_id","")) == user]
SelectMsgs(msgs, user) ==
    SelectSeq(msgs, LAMBDA msg : (~msg.is_bot) /\ msg.user_id = user)

\* ------------------------------------------------------------------------
\* Message texts.  A text is modelled by what the code's matchers see in it:
\* kind "plain" matches no extraction pattern, "topic" matches a topic
\* pattern capturing val, "fact" matches the important-fact patterns
\* capturing val, "info" matches the name pattern capturing val.  n makes
\* each inbound text distinct.
\* ------------------------------------------------------------------------
Text(kind, val, n) == [kind |-> kind, val |-> val, n |-> n]

\* ------------------------------------------------------------------------
\* ContextManager
\* ------------------------------------------------------------------------
\* ContextManager.__init__ with no memory file on disk
NewContextManager(max_messages, session_timeout) ==
    [ max_messages |-> max_messages,
      session_timeout |-> session_timeout,
      conversations |-> EmptyDict,
      memory |-> EmptyDict,
      active_sessions |-> EmptyDict,
      user_impressions |-> EmptyDict,
      last_impression_update |-> EmptyDict,
      dirty |-> FALSE,
      memory_loaded |-> FALSE ]

\* the record _update_memory creates for a chat it has not seen
FreshMemoryRecord ==
    [ user_info |-> EmptyDict, topics_discussed |-> <<>>, important_facts |-> <<>>,
      user_impressions |-> EmptyDict, last_interaction |-> NoneTime ]

\* the record add_to_memory creates for a chat it has not seen
FreshAddedRecord ==
    [ user_info |-> EmptyDict, topics_discussed |-> <<>>, important_facts |-> <<>>,
      user_impressions |-> EmptyDict, users |-> EmptyDict ]

update_memory(s, chat_id, t) ==
    LET m0 == IF Has(s.memory, chat_id) THEN s.memory
              ELSE Put(s.memory, chat_id, FreshMemoryRecord)
        r1 == Put(m0[chat_id], "last_interaction", t)
        r2 == IF Has(r1, "user_impressions") THEN r1
              ELSE Put(r1, "user_impressions", EmptyDict)
    IN [s EXCEPT !.memory = Put(m0, chat_id, r2), !.dirty = TRUE]

\* mutant of add_to_memory: the lists are appended to without the
\* "value not in" test
add_to_memory_NoCheck(s, chat_id, category, value, user_id, t) ==
    LET m0 == IF Has(s.memory, chat_id) THEN s.memory
              ELSE Put(s.memory, chat_id, FreshAddedRecord)
        r0 == m0[chat_id]
        r1 == IF category \in {"topics_discussed", "important_facts"} /\ Has(r0, category)
              THEN Put(r0, category, Append(r0[category], value))
              ELSE r0
    IN [st |-> [s EXCEPT !.memory = Put(m0, chat_id, Put(r1, "last_interaction", t)),
                         !.dirty = TRUE],
        exc |-> FALSE]

\* add_to_memory: the result is [st, exc]; exc is a KeyError on a record
\* that lacks the list of the category
add_to_memory(s, chat_id, category, value, user_id, t) ==
    LET m0 == IF Has(s.memory, chat_id) THEN s.memory
              ELSE Put(s.memory, chat_id, FreshAddedRecord)
        r0 == m0[chat_id]
        stamp(r) == Put(r, "last_interaction", t)
        done(r) == [st |-> [s EXCEPT !.memory = Put(m0, chat_id, stamp(r)), !.dirty = TRUE],
                    exc |-> FALSE]
        fail(r) == [st |-> [s EXCEPT !.memory = Put(m0, chat_id, r)], exc |-> TRUE]
    IN IF category = "user_info" /\ user_id # None
       THEN LET us0 == Get(r0, "users", EmptyDict)
                u0 == Get(us0, user_id, [user_info |-> EmptyDict])
                u1 == IF Has(u0, "user_info") THEN u0 ELSE Put(u0, "user_info", EmptyDict)
                u2 == Put(u1, "user_info", Put(u1.user_info, value[1], value[2]))
            IN done(Put(r0, "users", Put(us0, user_id, u2)))
       ELSE IF category = "topics_discussed"
       THEN IF ~Has(r0, "topics_discussed") THEN fail(r0)
            ELSE IF InList(r0.topics_discussed, value) THEN done(r0)
            ELSE done(Put(r0, "topics_discussed", Append(r0.topics_discussed, value)))
       ELSE IF category = "important_facts"
       THEN IF ~Has(r0, "important_facts") THEN fail(r0)
            ELSE IF InList(r0.important_facts, value) THEN done(r0)
            ELSE done(Put(r0, "important_facts", Append(r0.important_facts, value)))
       ELSE done(r0)

\* The add_to_memory calls _auto_detect_important_info makes for a text, in
\* the order of its three loops.  A "fact" text that begins with the word
\* both fact patterns 1 and 2 list is matched by both.
Extract(text) ==
    IF text.kind = "info" THEN << <<"user_info", <<"name", text.val>> >> >>
    ELSE IF text.kind = "topic" THEN << <<"topics_discussed", text.val>> >>
    ELSE IF text.kind = "fact" THEN << <<"important_facts", text.val>>,
                                       <<"important_facts", text.val>> >>
    ELSE <<>>

RECURSIVE ApplyExtract(_, _, _, _, _)
ApplyExtract(s, chat_id, user_id, calls, t) ==
    IF calls = <<>> THEN [st |-> s, exc |-> FALSE]
    ELSE LET r == add_to_memory(s, chat_id, Head(calls)[1], Head(calls)[2], user_id, t)
         IN IF r.exc THEN r
            ELSE ApplyExtract([r.st EXCEPT !.dirty = TRUE], chat_id, user_id, Tail(calls), t)

auto_detect_important_info(s, chat_id, user_id, message, t) ==
    ApplyExtract(s, chat_id, user_id, Extract(message), t)

\* "\n".join(msg["content"] for msg in messages[-50:]), kept as the list
Sample(messages) ==
    LET recent == LastN(messages, ImpressionSampleSize)
    IN [i \in 1..Len(recent) |-> recent[i].content]

generate_user_impression(s, chat_id, user_id, username, messages, t) ==
    LET existing == Get(Get(s.memory[chat_id], "user_impressions", EmptyDict), user_id, "")
        data == [ username |-> username,
                  message_count |-> Len(messages),
                  sample |-> Sample(messages),
                  existing_impression |-> existing,
                  needs_generation |-> TRUE,
                  last_updated |-> t ]
    IN [s EXCEPT !.user_impressions = Put(s.user_impressions, <<chat_id, user_id>>, data),
                 !.dirty = TRUE]

\* mutant of maybe_update_user_impression: the count at scheduling is not
\* recorded as the new baseline
maybe_update_user_impression_NoBaseline(s, chat_id, user_id, username, t) ==
    IF user_id = None THEN [st |-> s, scheduled |-> FALSE]
    ELSE LET user_messages == SelectMsgs(s.conversations[chat_id], user_id)
             user_key == <<chat_id, user_id>>
         IN IF Len(user_messages) < ImpressionMinMessages
            THEN [st |-> s, scheduled |-> FALSE]
            ELSE IF (~Has(s.last_impression_update, user_key))
                    \/ Len(user_messages) - s.last_impression_update[user_key] >= ImpressionDelta
            THEN [st |-> generate_user_impression(s, chat_id, user_id, username, user_messages, t),
                  scheduled |-> TRUE]
            ELSE [st |-> s, scheduled |-> FALSE]

\* mutant of maybe_update_user_impression: the stored count follows the
\* user's messages in the window on every call
maybe_update_user_impression_TrackWindow(s, chat_id, user_id, username, t) ==
    IF user_id = None THEN [st |-> s, scheduled |-> FALSE]
    ELSE LET user_messages == SelectMsgs(s.conversations[chat_id], user_id)
             user_key == <<chat_id, user_id>>
         IN IF Len(user_messages) < ImpressionMinMessages
            THEN [st |-> s, scheduled |-> FALSE]
            ELSE IF (~Has(s.last_impression_update, user_key))
                    \/ Len(user_messages) - s.last_impression_update[user_key] >= ImpressionDelta
            THEN LET g == generate_user_impression(s, chat_id, user_id, username, user_messages, t)
                 IN [st |-> [g EXCEPT !.last_impression_update =
                                         Put(g.last_impression_update, user_key, Len(user_messages)),
                                      !.dirty = TRUE],
                     scheduled |-> TRUE]
            ELSE [st |-> [s EXCEPT !.last_impression_update =
                                      Put(s.last_impression_update, user_key, Len(user_messages))],
                  scheduled |-> FALSE]

\* the result is [st, scheduled]: scheduled tells that the user was marked
\* as needing generation by this call
maybe_update_user_impression(s, chat_id, user_id, username, t) ==
    IF user_id = None THEN [st |-> s, scheduled |-> FALSE]
    ELSE LET user_messages == SelectMsgs(s.conversations[chat_id], user_id)
             user_key == <<chat_id, user_id>>
         IN IF Len(user_messages) < ImpressionMinMessages
            THEN [st |-> s, scheduled |-> FALSE]
            ELSE IF (~Has(s.last_impression_update, user_key))
                    \/ Len(user_messages) - s.last_impression_update[user_key] >= ImpressionDelta
            THEN LET g == generate_user_impression(s, chat_id, user_id, username, user_messages, t)
                 IN [st |-> [g EXCEPT !.last_impression_update =
                                         Put(g.last_impression_update, user_key, Len(user_messages)),
                                      !.dirty = TRUE],
                     scheduled |-> TRUE]
            ELSE [st |-> s, scheduled |-> FALSE]

MessageEntry(user_id, username, message, is_bot, t) ==
    [ timestamp |-> t, user_id |-> user_id, username |-> username,
      content |-> message, is_bot |-> is_bot ]

\* mutant of Trim: the slice keeps the head of the list, msgs[:max_messages]
TrimKeepsOldest(msgs, max_messages) ==
    IF Len(msgs) > max_messages THEN SubSeq(msgs, 1, max_messages) ELSE msgs

\* the list after the append and the trim of add_message
Trim(msgs, max_messages) ==
    IF Len(msgs) > max_messages THEN LastN(msgs, max_messages) ELSE msgs

\* add_message from "Update memory structures for this chat" to its
\* return: the result is [st, entry, scheduled, exc]
add_message_rest(s1, entry, chat_id, user_id, username, message, is_bot, t) ==
    LET s2 == update_memory(s1, chat_id, t)
    IN IF is_bot
       THEN [st |-> [s2 EXCEPT !.dirty = TRUE], entry |-> entry, scheduled |-> FALSE, exc |-> FALSE]
       ELSE LET d == auto_detect_important_info(s2, chat_id, user_id, message, t)
            IN IF d.exc
               THEN [st |-> d.st, entry |-> entry, scheduled |-> FALSE, exc |-> TRUE]
               ELSE LET i == maybe_update_user_impression(d.st, chat_id, user_id, username, t)
                    IN [st |-> [i.st EXCEPT !.dirty = TRUE], entry |-> entry,
                        scheduled |-> i.scheduled, exc |-> FALSE]

\* add_message: the result is [st, entry, scheduled, exc]
add_message(s, chat_id, user_id, username, message, is_bot, t) ==
    LET entry == MessageEntry(user_id, username, message, is_bot, t)
        conv == Append(Get(s.conversations, chat_id, <<>>), entry)
        s1 == [s EXCEPT !.conversations = Put(s.conversations, chat_id, Trim(conv, s.max_messages))]
    IN add_message_rest(s1, entry, chat_id, user_id, username, message, is_bot, t)

\* get_users_needing_impressions: the (chat, user) pairs of the list it returns
get_users_needing_impressions(s) ==
    { k \in DOMAIN s.user_impressions : Get(s.user_impressions[k], "needs_generation", FALSE) }

\* ------------------------------------------------------------------------
\* ContextManager: the Session Tracker.  Each result is [st, ret].
\* ------------------------------------------------------------------------
\* mutant of is_session_active: the participant is looked up before the
\* timeout is checked
is_session_active_MemberFirst(s, chat_id, user_id, t) ==
    IF ~Has(s.active_sessions, chat_id) THEN [st |-> s, ret |-> FALSE]
    ELSE LET session == s.active_sessions[chat_id]
         IN IF user_id # None
            THEN [st |-> s, ret |-> Has(session.participants, user_id)]
            ELSE IF t - session.last_activity > s.session_timeout
            THEN [st |-> [s EXCEPT !.active_sessions = Del(s.active_sessions, chat_id)],
                  ret |-> FALSE]
            ELSE [st |-> [s EXCEPT !.dirty = TRUE], ret |-> TRUE]

\* mutant of is_session_active: a session whose age equals the timeout
\* counts as expired
is_session_active_AtBoundary(s, chat_id, user_id, t) ==
    IF ~Has(s.active_sessions, chat_id) THEN [st |-> s, ret |-> FALSE]
    ELSE LET session == s.active_sessions[chat_id]
         IN IF t - session.last_activity >= s.session_timeout
            THEN [st |-> [s EXCEPT !.active_sessions = Del(s.active_sessions, chat_id)],
                  ret |-> FALSE]
            ELSE IF user_id # None
            THEN [st |-> s, ret |-> Has(session.participants, user_id)]
            ELSE [st |-> [s EXCEPT !.dirty = TRUE], ret |-> TRUE]

is_session_active(s, chat_id, user_id, t) ==
    IF ~Has(s.active_sessions, chat_id) THEN [st |-> s, ret |-> FALSE]
    ELSE LET session == s.active_sessions[chat_id]
         IN IF t - session.last_activity > s.session_timeout
            THEN [st |-> [s EXCEPT !.active_sessions = Del(s.active_sessions, chat_id)],
                  ret |-> FALSE]
            ELSE IF user_id # None
            THEN [st |-> s, ret |-> Has(session.participants, user_id)]
            ELSE [st |-> [s EXCEPT !.dirty = TRUE], ret |-> TRUE]

\* the session start_session stores
NewSession(user_id, username, t) ==
    [ last_activity |-> t, participants |-> (user_id :> username), starter |-> user_id ]

start_session(s, chat_id, user_id, username, t) ==
    [st |-> [s EXCEPT !.active_sessions = Put(s.active_sessions, chat_id,
                                              NewSession(user_id, username, t)),
                      !.dirty = TRUE],
     ret |-> TRUE]

\* mutant of update_session: a stored session is refreshed without the
\* expiry check
update_session_Revive(s, chat_id, user_id, username, t) ==
    IF ~Has(s.active_sessions, chat_id) THEN [st |-> s, ret |-> FALSE]
    ELSE LET old == s.active_sessions[chat_id]
             new == [old EXCEPT !.last_activity = t,
                                !.participants = Put(old.participants, user_id, username)]
         IN [st |-> [s EXCEPT !.active_sessions = Put(s.active_sessions, chat_id, new),
                              !.dirty = TRUE],
             ret |-> TRUE]

\* mutant of update_session: the touching user replaces the participants
update_session_Replace(s, chat_id, user_id, username, t) ==
    LET a == is_session_active(s, chat_id, None, t)
    IN IF ~a.ret THEN [st |-> a.st, ret |-> FALSE]
       ELSE LET old == a.st.active_sessions[chat_id]
                new == [old EXCEPT !.last_activity = t,
                                   !.participants = (user_id :> username)]
            IN [st |-> [a.st EXCEPT !.active_sessions = Put(a.st.active_sessions, chat_id, new),
                                    !.dirty = TRUE],
                ret |-> TRUE]

update_session(s, chat_id, user_id, username, t) ==
    LET a == is_session_active(s, chat_id, None, t)
    IN IF ~a.ret THEN [st |-> a.st, ret |-> FALSE]
       ELSE LET old == a.st.active_sessions[chat_id]
                new == [old EXCEPT !.last_activity = t,
                                   !.participants = Put(old.participants, user_id, username)]
            IN [st |-> [a.st EXCEPT !.active_sessions = Put(a.st.active_sessions, chat_id, new),
                                    !.dirty = TRUE],
                ret |-> TRUE]

end_session(s, chat_id) ==
    IF Has(s.active_sessions, chat_id)
    THEN [st |-> [s EXCEPT !.active_sessions = Del(s.active_sessions, chat_id), !.dirty = TRUE],
          ret |-> TRUE]
    ELSE [st |-> s, ret |-> FALSE]

\* ------------------------------------------------------------------------
\* ContextManager: persistence.  A file is absent, corrupt (a write that
\* failed part-way) or holds a document.
\* ------------------------------------------------------------------------
AbsentFile == [state |-> "absent"]
CorruptFile == [state |-> "corrupt"]
FileOf(doc) == [state |-> "ok", doc |-> doc]
\* what a write can do: succeed, fail before the file is opened (makedirs,
\* open), or fail after open(..., 'w') has truncated the file (json.dump)
WriteOutcomes == {"ok", "fail_before", "fail_partial"}
FileAfter(file, doc, outcome) ==
    IF outcome = "ok" THEN FileOf(doc)
    ELSE IF outcome = "fail_partial" THEN CorruptFile
    ELSE file

\* data_to_save of save_memory_if_dirty
cm_document(s, t) ==
    [ memory |-> s.memory,
      active_sessions |-> s.active_sessions,
      user_impressions_data |-> s.user_impressions,
      last_impression_update |-> s.last_impression_update,
      last_saved |-> t ]

\* mutant of save_memory_if_dirty: the flag is cleared before the write
\* and not set again when the write fails
save_memory_if_dirty_ClearFirst(s, file, outcome, t) ==
    IF ~s.dirty THEN [st |-> s, file |-> file, ret |-> FALSE, tried |-> FALSE, exc |-> FALSE]
    ELSE [st |-> [s EXCEPT !.dirty = FALSE], file |-> FileAfter(file, cm_document(s, t), outcome),
          ret |-> (outcome = "ok"), tried |-> TRUE, exc |-> FALSE]

\* save_memory_if_dirty: the result is [st, file, ret, tried, exc]; tried
\* tells that the write was attempted, exc that an exception left the
\* method (the except clause catches every Exception, so none does).
save_memory_if_dirty(s, file, outcome, t) ==
    IF ~s.dirty THEN [st |-> s, file |-> file, ret |-> FALSE, tried |-> FALSE, exc |-> FALSE]
    ELSE IF outcome = "ok"
    THEN [st |-> [s EXCEPT !.dirty = FALSE], file |-> FileAfter(file, cm_document(s, t), outcome),
          ret |-> TRUE, tried |-> TRUE, exc |-> FALSE]
    ELSE [st |-> s, file |-> FileAfter(file, cm_document(s, t), outcome),
          ret |-> FALSE, tried |-> TRUE, exc |-> FALSE]

\* ContextManager._save_memory: force a save
cm_save_memory(s, file, outcome, t) ==
    save_memory_if_dirty([s EXCEPT !.dirty = TRUE], file, outcome, t)

\* ContextManager._load_memory: the object after the call and the returned memory
cm_load_memory(s, file) ==
    IF file.state = "ok"
    THEN [st |-> [s EXCEPT !.active_sessions = file.doc.active_sessions,
                           !.user_impressions = file.doc.user_impressions_data,
                           !.last_impression_update = file.doc.last_impression_update],
          ret |-> file.doc.memory]
    ELSE [st |-> s, ret |-> EmptyDict]

\* ContextManager.__init__, statement by statement: conversations is set,
\* memory is loaded (which sets the three session / impression fields), and
\* then the three fields are assigned their empty initial values
ContextManagerInit(max_messages, session_timeout, file) ==
    LET s0 == [NewContextManager(max_messages, session_timeout) EXCEPT
                  !.conversations = EmptyDict]
        l == cm_load_memory(s0, file)
        s1 == [l.st EXCEPT !.memory = l.ret]
    IN [s1 EXCEPT !.active_sessions = EmptyDict,
                  !.user_impressions = EmptyDict,
                  !.last_impression_update = EmptyDict,
                  !.dirty = FALSE,
                  !.memory_loaded = (file.state # "absent")]

\* mutant of save_generated_impression: a record without user_impressions
\* is not repaired, the store raises KeyError
save_generated_impression_NoRepair(s, chat_id, user_id, impression, t) ==
    IF ~Has(s.memory, chat_id) \/ ~Has(s.memory[chat_id], "user_impressions")
    THEN [st |-> s, exc |-> TRUE]
    ELSE LET r == s.memory[chat_id]
             s1 == [s EXCEPT !.memory = Put(s.memory, chat_id,
                        Put(r, "user_impressions", Put(r.user_impressions, user_id, impression))),
                             !.dirty = TRUE]
             user_key == <<chat_id, user_id>>
         IN [st |-> IF Has(s1.user_impressions, user_key)
                    THEN [s1 EXCEPT !.user_impressions =
                             Put(s1.user_impressions, user_key,
                                 [s1.user_impressions[user_key] EXCEPT !.needs_generation = FALSE])]
                    ELSE s1,
             exc |-> FALSE]

\* ContextManager.save_generated_impression: the result is [st, exc]
save_generated_impression(s, chat_id, user_id, impression, t) ==
    LET s1 == IF ~Has(s.memory, chat_id) THEN update_memory(s, chat_id, t) ELSE s
        r1 == s1.memory[chat_id]
        s2 == IF ~Has(r1, "user_impressions")
              THEN [s1 EXCEPT !.memory = Put(s1.memory, chat_id, Put(r1, "user_impressions", EmptyDict)),
                              !.dirty = TRUE]
              ELSE s1
        r2 == s2.memory[chat_id]
        s3 == IF Get(r2.user_impressions, user_id, None) # impression
              THEN [s2 EXCEPT !.memory = Put(s2.memory, chat_id,
                        Put(r2, "user_impressions", Put(r2.user_impressions, user_id, impression))),
                              !.dirty = TRUE]
              ELSE s2
        user_key == <<chat_id, user_id>>
        s4 == IF Has(s3.user_impressions, user_key) /\ s3.user_impressions[user_key].needs_generation
              THEN [s3 EXCEPT !.user_impressions =
                       Put(s3.user_impressions, user_key,
                           [s3.user_impressions[user_key] EXCEPT !.needs_generation = FALSE]),
                              !.dirty = TRUE]
              ELSE s3
    IN [st |-> s4, exc |-> FALSE]

\* handle_memory_command, action "clear": the chat's record is replaced by
\* one that keeps only last_interaction, and the store is written; the
\* result is [st, file, ret]
clear_memory(s, file, chat_id, outcome, t) ==
    IF Has(s.memory, chat_id)
    THEN LET cleared == [ user_info |-> EmptyDict, topics_discussed |-> <<>>,
                          important_facts |-> <<>>,
                          last_interaction |-> Get(s.memory[chat_id], "last_interaction", NoneTime) ]
             w == cm_save_memory([s EXCEPT !.memory = Put(s.memory, chat_id, cleared)],
                                 file, outcome, t)
         IN [st |-> w.st, file |-> w.file, ret |-> TRUE]
    ELSE [st |-> s, file |-> file, ret |-> FALSE]

\* ------------------------------------------------------------------------
\* context_caching.py: ContextCache, the conversation summary gate.  The
\* cache keeps its data in the ContextManager's memory records and writes
\* through ContextManager._save_memory.
\* ------------------------------------------------------------------------
\* ContextCache.should_create_summary: the result is [st, file, ret]
should_create_summary(s, file, chat_id, outcome, t) ==
    IF ~Has(s.memory, chat_id) \/ ~Has(s.memory[chat_id], "conversation_summary")
    THEN [st |-> s, file |-> file, ret |-> TRUE]
    ELSE IF Has(s.memory[chat_id], "summary_timestamp")
    THEN LET age == t - s.memory[chat_id].summary_timestamp
             message_count == Len(Get(s.conversations, chat_id, <<>>))
             last_summarized_count == Get(s.memory[chat_id], "summary_message_count", 0)
         IN IF message_count - last_summarized_count >= messages_between_updates
               \/ age > hours_between_updates * TicksPerHour
            THEN LET s1 == [s EXCEPT !.memory = Put(s.memory, chat_id,
                                Put(s.memory[chat_id], "summary_message_count", message_count))]
                     w == cm_save_memory(s1, file, outcome, t)
                 IN [st |-> w.st, file |-> w.file, ret |-> TRUE]
            ELSE [st |-> s, file |-> file, ret |-> FALSE]
    ELSE [st |-> s, file |-> file, ret |-> FALSE]

\* ContextCache.save_cache_key: the result is [st, file]
save_cache_key(s, file, chat_id, cache_key, outcome, t) ==
    LET r0 == Get(s.memory, chat_id, EmptyDict)
        r1 == Put(r0, "cache_key", [key |-> cache_key, timestamp |-> t])
        w == cm_save_memory([s EXCEPT !.memory = Put(s.memory, chat_id, r1)], file, outcome, t)
    IN [st |-> w.st, file |-> w.file]

\* ContextCache.save_conversation_summary: the result is [st, file]
save_conversation_summary(s, file, chat_id, summary, outcome, t) ==
    LET r0 == Get(s.memory, chat_id, EmptyDict)
        r1 == Put(r0, "conversation_summary", summary)
        r2 == Put(r1, "summary_timestamp", t)
        r3 == Put(r2, "summary_message_count", Len(Get(s.conversations, chat_id, <<>>)))
        w == cm_save_memory([s EXCEPT !.memory = Put(s.memory, chat_id, r3)], file, outcome, t)
    IN [st |-> w.st, file |-> w.file]

\* ------------------------------------------------------------------------
\* GlobalMemory
\* ------------------------------------------------------------------------
NewGlobalMemory(threshold, max_impressions) ==
    [ users |-> EmptyDict,
      chat_analytics |-> EmptyDict,
      relationship_analyses |-> EmptyDict,
      last_analyses |-> [ user_analysis |-> EmptyDict, chat_analysis |-> EmptyDict,
                          relationship_analysis |-> EmptyDict ],
      analysis_thresholds |-> [ messages_for_user_update |-> threshold,
                                messages_for_chat_update |-> threshold,
                                messages_for_relationship_update |-> threshold ],
      max_impressions |-> max_impressions,
      dirty |-> FALSE ]

gm_document(g, t) ==
    [ users |-> g.users,
      chat_analytics |-> g.chat_analytics,
      relationship_analyses |-> g.relationship_analyses,
      last_analyses |-> g.last_analyses,
      last_updated |-> t ]

\* GlobalMemory._save_memory: the result is [st, file, tried, exc]
gm_save_memory(g, file, outcome, t) ==
    IF ~g.dirty THEN [st |-> g, file |-> file, tried |-> FALSE, exc |-> FALSE]
    ELSE IF outcome = "ok"
    THEN [st |-> [g EXCEPT !.dirty = FALSE], file |-> FileAfter(file, gm_document(g, t), outcome),
          tried |-> TRUE, exc |-> FALSE]
    ELSE [st |-> g, file |-> FileAfter(file, gm_document(g, t), outcome),
          tried |-> TRUE, exc |-> FALSE]

\* GlobalMemory._load_memory: data.get("users", {})
gm_load_memory(file) ==
    IF file.state = "ok" THEN file.doc.users ELSE EmptyDict

\* GlobalMemory.__init__
GlobalMemoryInit(threshold, max_impressions, file) ==
    [NewGlobalMemory(threshold, max_impressions) EXCEPT !.users = gm_load_memory(file)]

ensure_user_exists(g, user_id, username, t) ==
    IF ~Has(g.users, user_id)
    THEN [g EXCEPT !.users = Put(g.users, user_id,
                [ user_id |-> user_id, username |-> username,
                  first_seen |-> t, last_seen |-> t, total_messages |-> 0,
                  profile |-> [ personality |-> "", interests |-> <<>>,
                                behavior_patterns |-> <<>>,
                                relationship_with_bot |-> "neutral" ],
                  impressions |-> EmptyDict ]),
                  !.dirty = TRUE]
    ELSE LET u == g.users[user_id]
             g1 == IF u.username # username
                   THEN [g EXCEPT !.users = Put(g.users, user_id, Put(u, "username", username)),
                                  !.dirty = TRUE]
                   ELSE g
         IN [g1 EXCEPT !.users = Put(g1.users, user_id, Put(g1.users[user_id], "last_seen", t))]

FreshChatAnalytics ==
    [ total_messages |-> 0, active_users |-> EmptyDict, topics |-> EmptyDict,
      sentiment |-> [positive |-> 0, neutral |-> 0, negative |-> 0] ]

\* no analysis became due
NoneDue == [user |-> FALSE, chat |-> FALSE, rel |-> FALSE]

\* process_message up to (not including) its closing _save_memory:
\* the result is [st, ret, due]; due tells which needs-update flags the
\* call has set
process_message_body(g, chat_id, user_id, username, is_bot, t) ==
    IF is_bot \/ user_id = None THEN [st |-> g, ret |-> FALSE, due |-> NoneDue]
    ELSE
    LET g1 == ensure_user_exists(g, user_id, username, t)
        u1 == g1.users[user_id]
        chats0 == Get(u1, "chats", EmptyDict)
        c0 == Get(chats0, chat_id, [first_seen |-> t, message_count |-> 0])
        c1 == Put(Put(c0, "message_count", c0.message_count + 1), "last_activity", t)
        u2 == Put(Put(u1, "chats", Put(chats0, chat_id, c1)),
                  "total_messages", Get(u1, "total_messages", 0) + 1)
        a0 == Get(g1.chat_analytics, chat_id, FreshChatAnalytics)
        a1 == Put(Put(a0, "total_messages", a0.total_messages + 1),
                  "active_users", Put(a0.active_users, user_id,
                                      [username |-> username, last_activity |-> t]))
        user_messages == u2.total_messages
        chat_messages == a1.total_messages
        la == g1.last_analyses
        thr == g1.analysis_thresholds
        userDue == user_messages - Get(la.user_analysis, user_id, 0) >= thr.messages_for_user_update
        chatDue == chat_messages - Get(la.chat_analysis, chat_id, 0) >= thr.messages_for_chat_update
        relDue == chat_messages - Get(la.relationship_analysis, chat_id, 0)
                     >= thr.messages_for_relationship_update
        u3 == IF userDue THEN Put(u2, "needs_profile_update", TRUE) ELSE u2
        a2 == IF chatDue THEN Put(a1, "needs_update", TRUE) ELSE a1
        rel == IF relDue
               THEN Put(g1.relationship_analyses, chat_id,
                        Put(Get(g1.relationship_analyses, chat_id, EmptyDict), "needs_update", TRUE))
               ELSE g1.relationship_analyses
        la2 == [ user_analysis |-> IF userDue THEN Put(la.user_analysis, user_id, user_messages)
                                   ELSE la.user_analysis,
                 chat_analysis |-> IF chatDue THEN Put(la.chat_analysis, chat_id, chat_messages)
                                   ELSE la.chat_analysis,
                 relationship_analysis |-> IF relDue
                                   THEN Put(la.relationship_analysis, chat_id, chat_messages)
                                   ELSE la.relationship_analysis ]
    IN [st |-> [g1 EXCEPT !.users = Put(g1.users, user_id, u3),
                          !.chat_analytics = Put(g1.chat_analytics, chat_id, a2),
                          !.relationship_analyses = rel,
                          !.last_analyses = la2,
                          !.dirty = TRUE],
        ret |-> (userDue \/ chatDue \/ relDue),
        due |-> [user |-> userDue, chat |-> chatDue, rel |-> relDue]]

\* GlobalMemory.process_message: the result is [st, file, ret, tried, exc, due]
process_message(g, file, chat_id, user_id, username, is_bot, outcome, t) ==
    LET b == process_message_body(g, chat_id, user_id, username, is_bot, t)
    IN IF is_bot \/ user_id = None
       THEN [st |-> g, file |-> file, ret |-> FALSE, tried |-> FALSE, exc |-> FALSE,
             due |-> NoneDue]
       ELSE LET w == gm_save_memory(b.st, file, outcome, t)
            IN [st |-> w.st, file |-> w.file, ret |-> b.ret, tried |-> w.tried, exc |-> w.exc,
                due |-> b.due]

\* sorted(...)[0][0]: the smallest key of a dict
MinKey(d) == CHOOSE k \in DOMAIN d : \A j \in DOMAIN d : k <= j
MaxKey(d) == CHOOSE k \in DOMAIN d : \A j \in DOMAIN d : k >= j

\* mutant of save_user_impression: the entry deleted is the newest
save_user_impression_DropNewest(g, file, user_id, impression, outcome, t) ==
    IF ~Has(g.users, user_id) THEN [st |-> g, file |-> file, ret |-> FALSE]
    ELSE LET u == g.users[user_id]
             i1 == Put(Get(u, "impressions", EmptyDict), t, impression)
             i2 == IF Cardinality(DOMAIN i1) > g.max_impressions THEN Del(i1, MaxKey(i1)) ELSE i1
             g1 == [g EXCEPT !.users = Put(g.users, user_id, Put(u, "impressions", i2)),
                             !.dirty = TRUE]
             w == gm_save_memory(g1, file, outcome, t)
         IN [st |-> w.st, file |-> w.file, ret |-> TRUE]

\* GlobalMemory.save_user_impression: the history is a dict keyed by the
\* time of the call; the result is [st, file, ret]
save_user_impression(g, file, user_id, impression, outcome, t) ==
    IF ~Has(g.users, user_id) THEN [st |-> g, file |-> file, ret |-> FALSE]
    ELSE LET u == g.users[user_id]
             i1 == Put(Get(u, "impressions", EmptyDict), t, impression)
             i2 == IF Cardinality(DOMAIN i1) > g.max_impressions THEN Del(i1, MinKey(i1)) ELSE i1
             g1 == [g EXCEPT !.users = Put(g.users, user_id, Put(u, "impressions", i2)),
                             !.dirty = TRUE]
             w == gm_save_memory(g1, file, outcome, t)
         IN [st |-> w.st, file |-> w.file, ret |-> TRUE]

\* GlobalMemory.get_user_profile: the flag is cleared by the read; the
\* result is [st, file, found], the record returned is st.users[user_id]
get_user_profile(g, file, user_id, outcome, t) ==
    IF Has(g.users, user_id)
    THEN LET g1 == [g EXCEPT !.users = Put(g.users, user_id,
                                Put(g.users[user_id], "needs_profile_update", FALSE)),
                             !.dirty = TRUE]
             w == gm_save_memory(g1, file, outcome, t)
         IN [st |-> w.st, file |-> w.file, found |-> TRUE]
    ELSE [st |-> g, file |-> file, found |-> FALSE]

\* mutant of save_user_profile: the flag is left as it is
save_user_profile_KeepFlag(g, file, user_id, profile_data, outcome, t) ==
    IF ~Has(g.users, user_id) THEN [st |-> g, file |-> file, ret |-> FALSE]
    ELSE LET g1 == [g EXCEPT !.users = Put(g.users, user_id,
                                Put(g.users[user_id], "profile", profile_data)),
                             !.dirty = TRUE]
             w == gm_save_memory(g1, file, outcome, t)
         IN [st |-> w.st, file |-> w.file, ret |-> TRUE]

\* GlobalMemory.save_user_profile: the result is [st, file, ret]
save_user_profile(g, file, user_id, profile_data, outcome, t) ==
    IF ~Has(g.users, user_id) THEN [st |-> g, file |-> file, ret |-> FALSE]
    ELSE LET u1 == Put(g.users[user_id], "profile", profile_data)
             u2 == Put(u1, "needs_profile_update", FALSE)
             g1 == [g EXCEPT !.users = Put(g.users, user_id, u2), !.dirty = TRUE]
             w == gm_save_memory(g1, file, outcome, t)
         IN [st |-> w.st, file |-> w.file, ret |-> TRUE]

\* GlobalMemory.save_relationship_analysis: the result is [st, file, ret]
save_relationship_analysis(g, file, chat_id, relationships_data, outcome, t) ==
    LET r0 == Get(g.relationship_analyses, chat_id, EmptyDict)
        r1 == Put(Put(Put(r0, "relationships", relationships_data), "last_updated", t),
                  "needs_update", FALSE)
        g1 == [g EXCEPT !.relationship_analyses = Put(g.relationship_analyses, chat_id, r1),
                        !.dirty = TRUE]
        w == gm_save_memory(g1, file, outcome, t)
    IN [st |-> w.st, file |-> w.file, ret |-> TRUE]

get_users_needing_profile_updates(g) ==
    {u \in DOMAIN g.users : Get(g.users[u], "needs_profile_update", FALSE)}

get_chats_needing_analysis(g) ==
    {c \in DOMAIN g.chat_analytics : Get(g.chat_analytics[c], "needs_update", FALSE)}

get_chats_needing_relationship_analysis(g) ==
    {c \in DOMAIN g.relationship_analyses :
        Get(g.relationship_analyses[c], "needs_update", FALSE)}

\* ------------------------------------------------------------------------
\* main.py: should_respond on the characters of the text.  A text is a
\* sequence of characters; "A" is the capital of "a", "," and "/" are
\* punctuation, " " is the space, every other character is a letter.
\* (should_respond on Text records, further down, stands for the result of
\* this function through the kind of the text.)
\* ------------------------------------------------------------------------
Punctuation == {",", "/"}
\* \w of the regular expressions
IsWordChar(c) == c \notin Punctuation \cup {" "}
\* str.lower()
Lower(s) == [i \in 1..Len(s) |-> IF s[i] = "A" THEN "a" ELSE s[i]]
\* for punct in string.punctuation: check_text.replace(punct, ' ')
ReplacePunctuation(s) == [i \in 1..Len(s) |-> IF s[i] \in Punctuation THEN " " ELSE s[i]]
\* check_text.replace(' ', '')
RemoveSpaces(s) == SelectSeq(s, LAMBDA c : c # " ")
\* k occurs in s from position i on
OccursAt(s, k, i) == i >= 1 /\ i + Len(k) - 1 <= Len(s) /\ SubSeq(s, i, i + Len(k) - 1) = k
\* k in s
Contains(s, k) == \E i \in 1..(Len(s) + 1) : OccursAt(s, k, i)
\* s.startswith(k)
StartsWith(s, k) == OccursAt(s, k, 1)
\* \b between s[i-1] and s[i]
WordBoundary(s, i) ==
    ((i > 1) /\ IsWordChar(s[i - 1])) # ((i <= Len(s)) /\ IsWordChar(s[i]))
\* re.search(r'\b' + re.escape(k) + r'\b', s), with r'^\s*' in front when
\* the keyword must be at the beginning
SearchWholeWord(s, k, at_beginning) ==
    \E i \in 1..(Len(s) + 1) :
        /\ OccursAt(s, k, i)
        /\ WordBoundary(s, i)
        /\ WordBoundary(s, i + Len(k))
        /\ at_beginning => \A j \in 1..(i - 1) : s[j] = " "
\* s.split()[0], the empty text when s has no word
FirstWord(s) ==
    LET starts == {i \in 1..Len(s) : s[i] # " "}
    IN IF starts = {} THEN <<>>
       ELSE LET b == CHOOSE i \in starts : \A j \in starts : i <= j
                ends == {i \in b..Len(s) : i = Len(s) \/ s[i + 1] = " "}
                e == CHOOSE i \in ends : \A j \in ends : i <= j
            IN SubSeq(s, b, e)

\* CONFIG["response_settings"] and CONFIG["trigger_detection"]
TriggerConfig(direct, enabled, case_sensitive, whole_word_only, must_be_at_beginning) ==
    [ respond_to_direct_messages |-> direct, enabled |-> enabled,
      case_sensitive |-> case_sensitive, whole_word_only |-> whole_word_only,
      must_be_at_beginning |-> must_be_at_beginning, ignored_phrases |-> <<>> ]

\* the test of one keyword in should_respond
keyword_matches(check_text, keyword, cfg) ==
    IF cfg.whole_word_only
    THEN \/ SearchWholeWord(check_text, keyword, cfg.must_be_at_beginning)
         \/ StartsWith(RemoveSpaces(check_text), keyword)
    ELSE IF cfg.must_be_at_beginning
    THEN Contains(FirstWord(check_text), keyword)
    ELSE \/ Contains(check_text, keyword)
         \/ StartsWith(RemoveSpaces(check_text), keyword)

\* mutant of should_respond_chars: whole words are not asked for
should_respond_chars_Substring(text, keywords, cfg) ==
    IF cfg.respond_to_direct_messages /\ StartsWith(text, <<"/">>) THEN TRUE
    ELSE IF ~cfg.enabled THEN FALSE
    ELSE LET folded == IF cfg.case_sensitive THEN text ELSE Lower(text)
             kws == IF cfg.case_sensitive THEN keywords
                    ELSE [i \in 1..Len(keywords) |-> Lower(keywords[i])]
             check_text == ReplacePunctuation(folded)
         IN \E i \in 1..Len(kws) :
               keyword_matches(check_text, kws[i], [cfg EXCEPT !.whole_word_only = FALSE])

\* should_respond(text) with CONFIG["keywords"] = keywords
should_respond_chars(text, keywords, cfg) ==
    IF cfg.respond_to_direct_messages /\ StartsWith(text, <<"/">>) THEN TRUE
    ELSE IF ~cfg.enabled THEN FALSE
    ELSE LET folded == IF cfg.case_sensitive THEN text ELSE Lower(text)
             kws == IF cfg.case_sensitive THEN keywords
                    ELSE [i \in 1..Len(keywords) |-> Lower(keywords[i])]
             ignored == [i \in 1..Len(cfg.ignored_phrases) |->
                            IF cfg.case_sensitive THEN cfg.ignored_phrases[i]
                            ELSE Lower(cfg.ignored_phrases[i])]
             check_text == ReplacePunctuation(folded)
         IN IF \E i \in 1..Len(ignored) : Contains(Lower(folded), ignored[i])
            THEN FALSE
            ELSE \E i \in 1..Len(kws) : keyword_matches(check_text, kws[i], cfg)

\* ------------------------------------------------------------------------
\* main.py: the webhook's pure parts
\* ------------------------------------------------------------------------
\* message.chat.type in ['group', 'supergroup']: c1 is a group, c2 is private
IsGroup(chat_id) == chat_id = "c1"

\* CONFIG.get(...) with the defaults the webhook passes
DefaultConfig ==
    [ auto_reply_to_session_participants |-> TRUE, auto_join_session |-> TRUE,
      session_enabled |-> TRUE, include_reply_context |-> TRUE,
      respond_to_replies |-> TRUE, message_batching |-> TRUE ]

\* message_text = reply_context + message_text: the text no longer starts
\* with what it started with, it still holds what it held
WithReplyContext(text) ==
    [text EXCEPT !.kind = CASE text.kind \in {"command", "slash"} -> "re_slash"
                            [] text.kind = "kw" -> "re_kw"
                            [] text.kind = "end" -> "re_end"
                            [] OTHER -> "re_plain"]

\* message_text.startswith(cmd) for one of the commands of the dispatch
is_command(text) == text.kind = "command"

\* should_respond: the text starts with '/' or holds a keyword
should_respond(text) == text.kind \in {"kw", "re_kw", "slash", "command"}

\* is_session_end_command: the text holds one of end_session_commands
is_session_end_command(text) == text.kind \in {"end", "re_end"}

\* the texts the bot sends
Apology == Text("apology", "", 0)
EndNotice == Text("end_notice", "", 0)
\* response.text of the LLM call made by handler h
Reply(h) == Text("reply", "", h)

\* generate_response: the reply of the LLM, or the apology when the call
\* raised; the result is the returned text
generate_response(h, llm) == IF llm = "ok" THEN Reply(h) ELSE Apology

LlmOutcomes == {"ok", "fail"}
SendOutcomes == {"ok", "fail"}

\* mutant of session_interplay: a sender who is no participant is not
\* added to the session
session_interplay_NoJoin(s, chat_id, user_id, username, text, is_group, is_reply_to_bot, cfg, t) ==
    IF should_respond(text) \/ (is_reply_to_bot /\ cfg.respond_to_replies)
    THEN [st |-> s, keyword_match |-> TRUE, ended |-> FALSE]
    ELSE LET a == is_session_active(s, chat_id, user_id, t)
         IN IF a.ret
            THEN LET u == update_session(a.st, chat_id, user_id, username, t)
                 IN IF is_session_end_command(text)
                    THEN [st |-> end_session(u.st, chat_id).st,
                          keyword_match |-> FALSE, ended |-> TRUE]
                    ELSE [st |-> u.st,
                          keyword_match |-> (is_group /\ cfg.auto_reply_to_session_participants)
                                              \/ ~is_group,
                          ended |-> FALSE]
            ELSE [st |-> a.st, keyword_match |-> FALSE, ended |-> FALSE]

\* webhook, "Determine if bot should respond" down to the session
\* interplay: the result is [st, keyword_match, ended]
session_interplay(s, chat_id, user_id, username, text, is_group, is_reply_to_bot, cfg, t) ==
    IF should_respond(text) \/ (is_reply_to_bot /\ cfg.respond_to_replies)
    THEN [st |-> s, keyword_match |-> TRUE, ended |-> FALSE]
    ELSE LET a == is_session_active(s, chat_id, user_id, t)
         IN IF a.ret
            THEN LET u == update_session(a.st, chat_id, user_id, username, t)
                 IN IF is_session_end_command(text)
                    THEN [st |-> end_session(u.st, chat_id).st,
                          keyword_match |-> FALSE, ended |-> TRUE]
                    ELSE [st |-> u.st,
                          keyword_match |-> (is_group /\ cfg.auto_reply_to_session_participants)
                                              \/ ~is_group,
                          ended |-> FALSE]
            ELSE IF is_group /\ cfg.auto_join_session
            THEN LET b == is_session_active(a.st, chat_id, None, t)
                 IN IF b.ret
                    THEN [st |-> update_session(b.st, chat_id, user_id, username, t).st,
                          keyword_match |-> FALSE, ended |-> FALSE]
                    ELSE [st |-> b.st, keyword_match |-> FALSE, ended |-> FALSE]
            ELSE [st |-> a.st, keyword_match |-> FALSE, ended |-> FALSE]

\* webhook, "Check if session already exists or create one": the result
\* is the store
maintain_session(s, chat_id, user_id, username, is_group, cfg, t) ==
    IF is_group /\ ~cfg.session_enabled THEN s
    ELSE LET a == is_session_active(s, chat_id, None, t)
         IN IF ~a.ret
            THEN start_session(a.st, chat_id, user_id, username, t).st
            ELSE update_session(a.st, chat_id, user_id, username, t).st

\* a webhook call that has not been received yet
IdleHandler ==
    [ pc |-> "idle", chat |-> None, user |-> None, text |-> Text("plain", "", 0),
      is_group |-> FALSE, keyword_match |-> FALSE, current_time |-> 0,
      batched_messages |-> 0, batch_reply_trigger_id |-> 0,
      message_text |-> Text("plain", "", 0), response_text |-> Text("plain", "", 0),
      llm |-> "none", delivery |-> "none", bot_appended |-> FALSE, peers |-> {},
      trimmed |-> <<>>, call |-> "none", result |-> "none",
      is_forwarded |-> FALSE, is_reply_to_bot |-> FALSE ]

\* ------------------------------------------------------------------------
\* main.py: the background generation of impressions
\* ------------------------------------------------------------------------
\* the text generate_user_impression returns when the LLM call raises
ImpressionFailureText == "failed"
\* response.text.strip() of a successful call
ImpressionReply == "i1"

\* main.py generate_user_impression: the exception of the LLM call is
\* caught and the failure text is the return value
main_generate_user_impression(llm) ==
    IF llm = "ok" THEN ImpressionReply ELSE ImpressionFailureText

\* ContextManager.get_user_impression_data: the stored data or None; the
\* needs_generation flag is not looked at
get_user_impression_data(s, chat_id, user_id) ==
    IF Has(s.user_impressions, <<chat_id, user_id>>)
    THEN [found |-> TRUE, data |-> s.user_impressions[<<chat_id, user_id>>]]
    ELSE [found |-> FALSE]

RECURSIVE ListOf(_)
\* the list get_users_needing_impressions returns; the dict of the model
\* keeps no insertion order, the list is in some fixed order
ListOf(S) == IF S = {} THEN <<>>
             ELSE LET x == CHOOSE y \in S : TRUE IN <<x>> \o ListOf(S \ {x})

\* pending[:max_to_process]
FirstN(s, n) == IF Len(s) <= n THEN s ELSE SubSeq(s, 1, n)

\* GlobalMemory.get_chat_users: the users with an entry for the chat
get_chat_users(g, chat_id) ==
    {u \in DOMAIN g.users : Has(Get(g.users[u], "chats", EmptyDict), chat_id)}

\* generate_user_profile after its get_user_profile, whose result is r: the
\* LLM request and save_user_profile; a request that fails is caught and
\* nothing is saved
generate_user_profile_request(r, user_id, llm, profile_data, t) ==
    IF ~r.found \/ llm # "ok" THEN [st |-> r.st, file |-> r.file, ret |-> FALSE]
    ELSE save_user_profile(r.st, r.file, user_id, profile_data, "ok", t)

\* global_analysis.generate_user_profile on the GlobalMemory g: the result
\* is [st, file, ret], ret tells whether a profile was saved
generate_user_profile(g, file, user_id, llm, profile_data, t) ==
    generate_user_profile_request(get_user_profile(g, file, user_id, "ok", t),
                                  user_id, llm, profile_data, t)

\* global_analysis.generate_relationship_analysis on the GlobalMemory g
generate_relationship_analysis(g, file, chat_id, llm, relationships_data, t) ==
    IF Cardinality(get_chat_users(g, chat_id)) < 2 \/ llm # "ok"
    THEN [st |-> g, file |-> file, ret |-> FALSE]
    ELSE save_relationship_analysis(g, file, chat_id, relationships_data, "ok", t)

\* the state of process_pending_analyses after an entry of its first loop
\* whose call has returned r
profile_processed(r, saved, user_id) ==
    [st |-> r.st, file |-> r.file, saved |-> IF r.ret THEN saved \cup {user_id} ELSE saved]

RECURSIVE profiles_loop(_, _, _, _, _)
\* for user_id in user_ids[:max_profiles]: generate_user_profile(user_id, client)
profiles_loop(acc, user_ids, llm, profile_data, t) ==
    IF user_ids = <<>> THEN acc
    ELSE profiles_loop(
             profile_processed(generate_user_profile(acc.st, acc.file, Head(user_ids), llm,
                                                     profile_data, t),
                               acc.saved, Head(user_ids)),
             Tail(user_ids), llm, profile_data, t)

relationship_processed(r, saved) == [st |-> r.st, file |-> r.file, saved |-> saved]

RECURSIVE relationships_loop(_, _, _, _, _)
\* for chat_id in chat_ids[:max_relationships]: generate_relationship_analysis(chat_id, client)
relationships_loop(acc, chat_ids, llm, relationships_data, t) ==
    IF chat_ids = <<>> THEN acc
    ELSE relationships_loop(
             relationship_processed(
                 generate_relationship_analysis(acc.st, acc.file, Head(chat_ids), llm,
                                                relationships_data, t),
                 acc.saved),
             Tail(chat_ids), llm, relationships_data, t)

\* process_pending_analyses from its second loop on, p the state after the first
process_pending_relationships(p, llm, relationships_data, t) ==
    relationships_loop(p, FirstN(ListOf(get_chats_needing_relationship_analysis(p.st)),
                                 max_relationships),
                       llm, relationships_data, t)

\* global_analysis.process_pending_analyses on the GlobalMemory g: the
\* result is [st, file, saved], saved the users whose profile was saved
process_pending_analyses(g, file, llm, profile_data, relationships_data, t) ==
    process_pending_relationships(
        profiles_loop([st |-> g, file |-> file, saved |-> {}],
                      FirstN(ListOf(get_users_needing_profile_updates(g)), max_profiles),
                      llm, profile_data, t),
        llm, relationships_data, t)

\* a background task run that has not been spawned
IdleRun == [ pc |-> "idle", pending |-> <<>>, i |-> 0, llm |-> "none",
             impression |-> "", scheduling |-> 0,
             current_time |-> 0, keys_to_remove |-> {} ]

\* ------------------------------------------------------------------------
\* State
\* ------------------------------------------------------------------------
VARIABLES
    now,        \* the wall clock (datetime.now(), time.time())
    steps,      \* number of bounded operations taken (also numbers the texts)
    cm,         \* the ContextManager object (context_manager in main.py)
    cm_file,    \* the file the ContextManager writes (MEMORY_PATH)
    gm,         \* the GlobalMemory object (global_memory in main.py)
    gm_file,    \* the file the GlobalMemory writes (GLOBAL_MEMORY_PATH)
    appended,   \* history: per chat, every entry add_message has returned
    marks,      \* history: per (chat, user), how often generation was scheduled
    reaped,     \* history: per chat, the last session a lazy expiry deleted
    lastOp,     \* history: the last operation, its arguments and its result
    message_batches, \* main.py's message_batches dict, keyed by (chat, sender)
    batch_lists,     \* the 'messages' list objects the batches refer to
    handlers,   \* the webhook calls: position in webhook() and local variables
    sent,       \* what send_message has delivered, in order
    turns,      \* history: the inputs generate_response was called with
    admitted,   \* history: the messages put into a batch (created or appended)
    main_pc,    \* position of the main thread in the __main__ block
    saver_pc,   \* position of the periodic_save_loop thread
    bg,         \* the run_background_tasks threads: position and local variables
    requests,   \* history: per (chat, user, scheduling), the LLM requests sent
    observed,   \* history: per analysis gate, the messages observed since it last fired
    CONFIG,     \* main.py's CONFIG: the settings the webhook reads
    analysis_gm,    \* the GlobalMemory object of global_analysis.py (its global_memory)
    followup_queue  \* main.py's followup_queue dict, keyed by (chat, user, second)

cmHist == <<appended, marks, reaped>>
gmVars == <<gm, gm_file>>
batchVars == <<message_batches, batch_lists, admitted>>
webhookVars == <<batchVars, handlers, sent, turns>>
mainVars == <<main_pc, saver_pc>>
bgVars == <<bg, requests>>
vars == <<now, steps, cm, cm_file, gm, gm_file, appended, marks, reaped, lastOp,
          message_batches, batch_lists, handlers, sent, turns, admitted,
          main_pc, saver_pc, bg, requests, observed, CONFIG, analysis_gm, followup_queue>>

\* the history of the analysis gates after one observed message: the gate
\* of the user and the two gates of the chat count the message, a gate that
\* has fired counts from zero again
Observe(obs, chat_id, user_id, due) ==
    LET count(o, key, fired) == Put(o, key, IF fired THEN 0 ELSE Get(o, key, 0) + 1)
    IN count(count(count(obs, <<"user", user_id>>, due.user),
                   <<"chat", chat_id>>, due.chat),
             <<"rel", chat_id>>, due.rel)

NoOp == [op |-> "init"]

\* the clock advances
Tick ==
    /\ now < MaxTime
    /\ now' = now + 1
    /\ lastOp' = [op |-> "tick"]
    /\ UNCHANGED <<steps, cm, cm_file, gmVars, cmHist, webhookVars, mainVars, bgVars, observed, CONFIG, analysis_gm, followup_queue>>

\* one call of ContextManager.add_message
AddMessage(chat_id, user_id, message, is_bot) ==
    LET r == add_message(cm, chat_id, user_id, NameOf(user_id), message, is_bot, now)
    IN /\ cm' = r.st
       /\ appended' = Put(appended, chat_id, Append(Get(appended, chat_id, <<>>), r.entry))
       /\ marks' = IF r.scheduled
                   THEN Put(marks, <<chat_id, user_id>>, Get(marks, <<chat_id, user_id>>, 0) + 1)
                   ELSE marks
       /\ lastOp' = [op |-> "add_message", chat |-> chat_id, user |-> user_id, exc |-> r.exc]
       /\ steps' = steps + 1
       /\ UNCHANGED <<now, cm_file, gmVars, reaped, webhookVars, mainVars, bgVars, observed, CONFIG, analysis_gm, followup_queue>>

\* the session exists and its last activity is older than the timeout
Expired(s, chat_id, t) ==
    /\ Has(s.active_sessions, chat_id)
    /\ t - s.active_sessions[chat_id].last_activity > s.session_timeout

SessionOp(name, chat_id, user_id, r) ==
    /\ cm' = r.st
    /\ lastOp' = [op |-> name, chat |-> chat_id, user |-> user_id, ret |-> r.ret]
    /\ reaped' = IF Expired(cm, chat_id, now) /\ ~Has(r.st.active_sessions, chat_id)
                 THEN Put(reaped, chat_id, cm.active_sessions[chat_id])
                 ELSE reaped
    /\ UNCHANGED <<now, steps, cm_file, gmVars, appended, marks, webhookVars, mainVars, bgVars, observed, CONFIG, analysis_gm, followup_queue>>

IsSessionActive(chat_id, user_id) ==
    SessionOp("is_session_active", chat_id, user_id, is_session_active(cm, chat_id, user_id, now))
StartSession(chat_id, user_id) ==
    SessionOp("start_session", chat_id, user_id,
              start_session(cm, chat_id, user_id, NameOf(user_id), now))
UpdateSession(chat_id, user_id) ==
    SessionOp("update_session", chat_id, user_id,
              update_session(cm, chat_id, user_id, NameOf(user_id), now))
EndSession(chat_id) ==
    SessionOp("end_session", chat_id, None, end_session(cm, chat_id))

\* one call of ContextManager.save_memory_if_dirty
SaveMemoryIfDirty(outcome) ==
    LET r == save_memory_if_dirty(cm, cm_file, outcome, now)
    IN /\ cm' = r.st
       /\ cm_file' = r.file
       /\ lastOp' = [op |-> "save_memory_if_dirty", ret |-> r.ret, tried |-> r.tried,
                     outcome |-> outcome, exc |-> r.exc,
                     retry |-> (lastOp.op = "save_memory_if_dirty" /\ lastOp.tried
                                  /\ lastOp.outcome # "ok")]
       /\ steps' = steps + 1
       /\ UNCHANGED <<now, gmVars, cmHist, webhookVars, mainVars, bgVars, observed, CONFIG, analysis_gm, followup_queue>>

\* one call of GlobalMemory.process_message
ProcessMessage(chat_id, user_id, outcome) ==
    LET r == process_message(gm, gm_file, chat_id, user_id, NameOf(user_id), FALSE, outcome, now)
    IN /\ gm' = r.st
       /\ gm_file' = r.file
       /\ observed' = Observe(observed, chat_id, user_id, r.due)
       /\ lastOp' = [op |-> "process_message", chat |-> chat_id, user |-> user_id,
                     ret |-> r.ret, tried |-> r.tried, outcome |-> outcome, exc |-> r.exc,
                     due |-> r.due]
       /\ steps' = steps + 1
       /\ UNCHANGED <<now, cm, cm_file, cmHist, webhookVars, mainVars, bgVars, CONFIG, analysis_gm, followup_queue>>

\* one call of GlobalMemory.process_message for a message of a user, of
\* the bot or without a sender
ProcessMessageOf(chat_id, user_id, is_bot, outcome) ==
    LET r == process_message(gm, gm_file, chat_id, user_id, NameOf(user_id), is_bot, outcome, now)
    IN /\ gm' = r.st
       /\ gm_file' = r.file
       /\ lastOp' = [op |-> "process_message", chat |-> chat_id, user |-> user_id,
                     ret |-> r.ret, tried |-> r.tried, outcome |-> outcome, exc |-> r.exc,
                     due |-> r.due, is_bot |-> is_bot]
       /\ steps' = steps + 1
       /\ UNCHANGED <<now, cm, cm_file, cmHist, webhookVars, mainVars, bgVars, observed, CONFIG, analysis_gm, followup_queue>>

\* one call of ContextManager.add_to_memory
AddToMemory(chat_id, category, value, user_id) ==
    LET r == add_to_memory(cm, chat_id, category, value, user_id, now)
    IN /\ cm' = r.st
       /\ lastOp' = [op |-> "add_to_memory", chat |-> chat_id, category |-> category,
                     exc |-> r.exc,
                     present |-> /\ category \in {"topics_discussed", "important_facts"}
                                 /\ Has(cm.memory, chat_id)
                                 /\ Has(cm.memory[chat_id], category)
                                 /\ InList(cm.memory[chat_id][category], value)]
       /\ steps' = steps + 1
       /\ UNCHANGED <<now, cm_file, gmVars, cmHist, webhookVars, mainVars, bgVars, observed, CONFIG, analysis_gm, followup_queue>>

\* one call of GlobalMemory.save_user_impression
SaveUserImpression(user_id, impression, outcome) ==
    LET r == save_user_impression(gm, gm_file, user_id, impression, outcome, now)
    IN /\ gm' = r.st
       /\ gm_file' = r.file
       /\ lastOp' = [op |-> "save_user_impression", user |-> user_id, ret |-> r.ret]
       /\ UNCHANGED <<now, steps, cm, cm_file, cmHist, webhookVars, mainVars, bgVars, observed, CONFIG, analysis_gm, followup_queue>>

\* one call of ContextManager.save_generated_impression
SaveGeneratedImpression(chat_id, user_id, impression) ==
    LET r == save_generated_impression(cm, chat_id, user_id, impression, now)
    IN /\ cm' = r.st
       /\ lastOp' = [op |-> "save_generated_impression", chat |-> chat_id, user |-> user_id,
                     impression |-> impression, exc |-> r.exc,
                     repaired |-> (~Has(cm.memory, chat_id)
                                     \/ ~Has(cm.memory[chat_id], "user_impressions"))]
       /\ UNCHANGED <<now, steps, cm_file, gmVars, cmHist, webhookVars, mainVars, bgVars, observed, CONFIG, analysis_gm, followup_queue>>

\* the clear action of the /memory command
ClearMemory(chat_id, outcome) ==
    LET r == clear_memory(cm, cm_file, chat_id, outcome, now)
    IN /\ cm' = r.st
       /\ cm_file' = r.file
       /\ lastOp' = [op |-> "clear_memory", chat |-> chat_id, ret |-> r.ret]
       /\ UNCHANGED <<now, steps, gmVars, cmHist, webhookVars, mainVars, bgVars, observed, CONFIG, analysis_gm, followup_queue>>

\* one call of GlobalMemory.get_user_profile
GetUserProfile(user_id, outcome) ==
    LET r == get_user_profile(gm, gm_file, user_id, outcome, now)
    IN /\ gm' = r.st
       /\ gm_file' = r.file
       /\ lastOp' = [op |-> "get_user_profile", user |-> user_id, found |-> r.found,
                     pending |-> (user_id \in get_users_needing_profile_updates(gm))]
       /\ UNCHANGED <<now, steps, cm, cm_file, cmHist, webhookVars, mainVars, bgVars, observed, CONFIG, analysis_gm, followup_queue>>

\* one call of GlobalMemory.save_user_profile
SaveUserProfile(user_id, profile_data, outcome) ==
    LET r == save_user_profile(gm, gm_file, user_id, profile_data, outcome, now)
    IN /\ gm' = r.st
       /\ gm_file' = r.file
       /\ lastOp' = [op |-> "save_user_profile", user |-> user_id, ret |-> r.ret,
                     profile |-> profile_data,
                     pending |-> (user_id \in get_users_needing_profile_updates(gm))]
       /\ UNCHANGED <<now, steps, cm, cm_file, cmHist, webhookVars, mainVars, bgVars, observed, CONFIG, analysis_gm, followup_queue>>

\* one call of GlobalMemory.save_relationship_analysis
SaveRelationshipAnalysis(chat_id, relationships_data, outcome) ==
    LET r == save_relationship_analysis(gm, gm_file, chat_id, relationships_data, outcome, now)
    IN /\ gm' = r.st
       /\ gm_file' = r.file
       /\ lastOp' = [op |-> "save_relationship_analysis", chat |-> chat_id, ret |-> r.ret,
                     relationships |-> relationships_data,
                     pending |-> (chat_id \in get_chats_needing_relationship_analysis(gm))]
       /\ UNCHANGED <<now, steps, cm, cm_file, cmHist, webhookVars, mainVars, bgVars, observed, CONFIG, analysis_gm, followup_queue>>

\* the process starts again: main.py constructs both stores from their
\* files, and the import of global_analysis constructs its GlobalMemory
\* from the same file as main.py's
Restart ==
    /\ cm' = ContextManagerInit(cm.max_messages, cm.session_timeout, cm_file)
    /\ gm' = GlobalMemoryInit(gm.analysis_thresholds.messages_for_user_update,
                              gm.max_impressions, gm_file)
    /\ lastOp' = [op |-> "restart", cm_synced |-> (lastOp.op = "save_memory_if_dirty" /\ lastOp.ret),
                  gm_synced |-> (lastOp.op = "process_message" /\ lastOp.tried
                                    /\ lastOp.outcome = "ok")]
    /\ analysis_gm' = GlobalMemoryInit(DefaultAnalysisThreshold, DefaultMaxSavedImpressions,
                                       gm_file)
    /\ followup_queue' = EmptyDict
    /\ steps' = steps + 1
    /\ UNCHANGED <<now, cm_file, gm_file, cmHist, webhookVars, mainVars, bgVars, observed, CONFIG>>

\* everything but the configuration
InitState ==
    /\ now = 0
    /\ steps = 0
    /\ cm_file = AbsentFile
    /\ gm_file = AbsentFile
    /\ appended = EmptyDict
    /\ marks = EmptyDict
    /\ reaped = EmptyDict
    /\ lastOp = NoOp
    /\ message_batches = EmptyDict
    /\ batch_lists = EmptyDict
    /\ handlers = [h \in 1..MaxHandlers |-> IdleHandler]
    /\ sent = <<>>
    /\ turns = <<>>
    /\ admitted = {}
    /\ main_pc = "app_run"
    /\ saver_pc = "not_started"
    /\ bg = [r \in 1..MaxRuns |-> IdleRun]
    /\ requests = EmptyDict
    /\ observed = EmptyDict
    /\ analysis_gm = GlobalMemoryInit(DefaultAnalysisThreshold, DefaultMaxSavedImpressions,
                                      AbsentFile)
    /\ followup_queue = EmptyDict

\* the state after construction under the default configuration
InitCommon ==
    /\ InitState
    /\ CONFIG = DefaultConfig

\* ------------------------------------------------------------------------
\* SpecStore: the Conversation Store under any sequence of appends
\* ------------------------------------------------------------------------
StoreKinds == {"plain", "topic"}

InitStore ==
    /\ InitCommon
    /\ \E w \in 1..MaxWindow : cm = NewContextManager(w, 1)
    /\ gm = NewGlobalMemory(1, 1)

StoreAppendUser ==
    /\ steps < MaxAppends
    /\ \E c \in Chats, k \in StoreKinds : AddMessage(c, "u1", Text(k, "t1", steps), FALSE)

StoreAppendBot ==
    /\ steps < MaxAppends
    /\ \E c \in Chats : AddMessage(c, None, Text("plain", "", steps), TRUE)

NextStore == StoreAppendUser \/ StoreAppendBot

SpecStore == InitStore /\ [][NextStore]_vars

\* ------------------------------------------------------------------------
\* SpecSession: the Session Tracker under any sequence of its operations
\* and of clock ticks
\* ------------------------------------------------------------------------
InitSession ==
    /\ InitCommon
    /\ \E s \in 1..MaxSessionTimeout : cm = NewContextManager(1, s)
    /\ gm = NewGlobalMemory(1, 1)

SessionQuery == \E c \in Chats, u \in Users \cup {None} : IsSessionActive(c, u)
SessionStart == \E c \in Chats, u \in Users : StartSession(c, u)
SessionTouch == \E c \in Chats, u \in Users : UpdateSession(c, u)
SessionEnd == \E c \in Chats : EndSession(c)

NextSession == SessionQuery \/ SessionStart \/ SessionTouch \/ SessionEnd \/ Tick

SpecSession == InitSession /\ [][NextSession]_vars

\* ------------------------------------------------------------------------
\* SpecPersist: appends, observations, saves that may fail, and restarts
\* ------------------------------------------------------------------------
InitPersist ==
    /\ InitCommon
    /\ cm = NewContextManager(MaxWindow, 1)
    /\ gm = NewGlobalMemory(1, 1)

PersistAppend ==
    /\ steps < MaxPersistOps
    /\ AddMessage("c1", "u1", Text("topic", "t1", steps), FALSE)

PersistStartSession ==
    /\ steps < MaxPersistOps
    /\ ~Has(cm.active_sessions, "c1")
    /\ StartSession("c1", "u1")

PersistObserve ==
    /\ steps < MaxPersistOps
    /\ \E o \in WriteOutcomes : ProcessMessage("c1", "u1", o)

PersistSave ==
    /\ steps < MaxPersistOps
    /\ \E o \in WriteOutcomes : SaveMemoryIfDirty(o)

PersistRestart ==
    /\ steps < MaxPersistOps
    /\ Restart

NextPersist ==
    PersistAppend \/ PersistStartSession \/ PersistObserve \/ PersistSave \/ PersistRestart

SpecPersist == InitPersist /\ [][NextPersist]_vars

\* ------------------------------------------------------------------------
\* SpecImpression: one user sends ImpressionRun messages to one chat, the
\* bot and a second user send a few in between; add_message runs
\* _maybe_update_user_impression after every message
\* ------------------------------------------------------------------------
InitImpression ==
    /\ InitCommon
    /\ cm = NewContextManager(DefaultMaxMessages, 1)
    /\ gm = NewGlobalMemory(1, 1)

\* the messages a user has sent to a chat so far
SentBy(chat_id, user_id) == Len(SelectMsgs(Get(appended, chat_id, <<>>), user_id))
\* the messages others have sent to a chat so far
SentByOthers(chat_id, user_id) == Len(Get(appended, chat_id, <<>>)) - SentBy(chat_id, user_id)

ImpressionUserMessage ==
    /\ SentBy("c1", "u1") < ImpressionRun
    /\ AddMessage("c1", "u1", Text("plain", "", steps), FALSE)

ImpressionOtherUser ==
    /\ SentByOthers("c1", "u1") < MaxOtherMessages
    /\ AddMessage("c1", "u2", Text("plain", "", steps), FALSE)

ImpressionBotMessage ==
    /\ SentByOthers("c1", "u1") < MaxOtherMessages
    /\ AddMessage("c1", None, Text("plain", "", steps), TRUE)

NextImpression == ImpressionUserMessage \/ ImpressionOtherUser \/ ImpressionBotMessage

SpecImpression == InitImpression /\ [][NextImpression]_vars

\* ------------------------------------------------------------------------
\* SpecWebhook: MaxHandlers webhook calls run concurrently (the server
\* handles each request in its own thread), each for one text message that
\* is neither a command nor forwarded.  The message_batches block is taken
\* statement by statement; the calls into the stores are taken whole.
\* ------------------------------------------------------------------------
Handlers == 1..MaxHandlers
\* the inbound messages: to the group chat, with or without a keyword; the
\* write that closes process_message succeeds
WebhookChats == {"c1"}
WebhookKinds == {"kw", "plain"}
BatchKey(h) == <<handlers[h].chat, handlers[h].user>>
InFlight(h) == handlers[h].pc \notin {"idle", "done", "crashed"}
Finished(h) == handlers[h].pc \in {"done", "crashed"}

\* handler h moves on: its record is replaced, the other records stay
Goto(h, rec) == handlers' = [handlers EXCEPT ![h] = rec]

\* add_message as called from the webhook, with the histories it feeds
WebhookAddMessage(s, chat_id, user_id, message, is_bot) ==
    LET r == add_message(s, chat_id, user_id, NameOf(user_id), message, is_bot, now)
    IN /\ cm' = r.st
       /\ appended' = Put(appended, chat_id, Append(Get(appended, chat_id, <<>>), r.entry))
       /\ marks' = IF r.scheduled
                   THEN Put(marks, <<chat_id, user_id>>, Get(marks, <<chat_id, user_id>>, 0) + 1)
                   ELSE marks

\* webhook, from request.get_json() to context_manager.add_message: the
\* message is observed by the Global Directory and appended to the store
WebhookReceive(h) ==
    /\ handlers[h].pc = "idle"
    /\ \A g \in Handlers : g < h => handlers[g].pc # "idle"
    /\ \E chat_id \in WebhookChats, user_id \in Users, kind \in WebhookKinds, o \in {"ok"} :
          LET text == Text(kind, "", h)
              p == process_message(gm, gm_file, chat_id, user_id, NameOf(user_id), FALSE, o, now)
          IN /\ gm' = p.st
             /\ gm_file' = p.file
             /\ observed' = Observe(observed, chat_id, user_id, p.due)
             /\ WebhookAddMessage(cm, chat_id, user_id, text, FALSE)
             /\ Goto(h, [IdleHandler EXCEPT !.pc = "dispatch", !.chat = chat_id,
                            !.user = user_id, !.text = text, !.message_text = text,
                            !.is_group = IsGroup(chat_id),
                            !.peers = {g \in Handlers : InFlight(g)}])
             /\ lastOp' = [op |-> "webhook"]
    /\ UNCHANGED <<now, steps, cm_file, reaped, batchVars, sent, turns, mainVars, bgVars, CONFIG, analysis_gm, followup_queue>>

\* webhook, trigger detection and session interplay
WebhookDispatch(h) ==
    /\ handlers[h].pc = "dispatch"
    /\ LET me == handlers[h]
           r == session_interplay(cm, me.chat, me.user, NameOf(me.user), me.message_text,
                                  me.is_group, me.is_reply_to_bot, CONFIG, now)
       IN /\ ~r.ended
          /\ cm' = r.st
          /\ Goto(h, [me EXCEPT !.keyword_match = r.keyword_match,
                                !.pc = IF me.is_forwarded /\ CONFIG.message_batching
                                       THEN "forward"
                                       ELSE IF r.keyword_match /\ CONFIG.message_batching
                                       THEN "batch_check"
                                       ELSE IF r.keyword_match THEN "single" ELSE "done"])
          /\ lastOp' = [op |-> "webhook"]
    /\ UNCHANGED <<now, steps, cm_file, gmVars, cmHist, batchVars, sent, turns, mainVars, bgVars, observed, CONFIG, analysis_gm, followup_queue>>

\* webhook, the session end command of a participant: the session is
\* ended, the notice sent and appended as a bot message
WebhookEndSession(h) ==
    /\ handlers[h].pc = "dispatch"
    /\ LET me == handlers[h]
           r == session_interplay(cm, me.chat, me.user, NameOf(me.user), me.message_text,
                                  me.is_group, me.is_reply_to_bot, CONFIG, now)
       IN /\ r.ended
          /\ \E d \in SendOutcomes :
                IF d = "ok"
                THEN /\ sent' = Append(sent, [chat |-> me.chat, text |-> EndNotice, by |-> h])
                     /\ WebhookAddMessage(r.st, me.chat, None, EndNotice, TRUE)
                     /\ Goto(h, [me EXCEPT !.pc = "done", !.delivery = "ok"])
                ELSE /\ cm' = r.st
                     /\ Goto(h, [me EXCEPT !.pc = "crashed", !.delivery = "fail"])
                     /\ UNCHANGED <<sent, appended, marks>>
          /\ lastOp' = [op |-> "webhook"]
    /\ UNCHANGED <<now, steps, cm_file, gmVars, reaped, batchVars, turns, mainVars, bgVars, observed, CONFIG, analysis_gm, followup_queue>>

\* webhook: current_time = time.time(); if batch_key in message_batches and
\* current_time - last_update < MESSAGE_BATCH_TIMEOUT
BatchCheck(h) ==
    /\ handlers[h].pc = "batch_check"
    /\ LET open == /\ Has(message_batches, BatchKey(h))
                   /\ now - message_batches[BatchKey(h)].last_update < MESSAGE_BATCH_TIMEOUT
       IN Goto(h, [handlers[h] EXCEPT !.current_time = now,
                                      !.pc = IF open THEN "append_message" ELSE "create"])
    /\ lastOp' = [op |-> "webhook"]
    /\ UNCHANGED <<now, steps, cm, cm_file, gmVars, cmHist, batchVars, sent, turns, mainVars, bgVars, observed, CONFIG, analysis_gm, followup_queue>>

\* webhook: message_batches[batch_key]['messages'].append(message_text);
\* KeyError when the key has been deleted since the check
BatchAppendMessage(h) ==
    /\ handlers[h].pc = "append_message"
    /\ IF Has(message_batches, BatchKey(h))
       THEN LET l == message_batches[BatchKey(h)].messages
            IN /\ batch_lists' = [batch_lists EXCEPT ![l] = Append(@, handlers[h].message_text)]
               /\ admitted' = admitted \cup {h}
               /\ Goto(h, [handlers[h] EXCEPT !.pc = "append_ids"])
       ELSE /\ Goto(h, [handlers[h] EXCEPT !.pc = "crashed"])
            /\ UNCHANGED <<batch_lists, admitted>>
    /\ lastOp' = [op |-> "webhook"]
    /\ UNCHANGED <<now, steps, cm, cm_file, gmVars, cmHist, message_batches, sent, turns, mainVars, bgVars, observed, CONFIG, analysis_gm, followup_queue>>

\* webhook: message_batches[batch_key]['message_ids'].append(message_id);
\* message_batches[batch_key]['last_update'] = current_time; return 'OK'
BatchAppendIds(h) ==
    /\ handlers[h].pc = "append_ids"
    /\ IF Has(message_batches, BatchKey(h))
       THEN /\ message_batches' = [message_batches EXCEPT ![BatchKey(h)] =
                    [@ EXCEPT !.message_ids = Append(@, h),
                              !.last_update = handlers[h].current_time]]
            /\ Goto(h, [handlers[h] EXCEPT !.pc = "done"])
       ELSE /\ Goto(h, [handlers[h] EXCEPT !.pc = "crashed"])
            /\ UNCHANGED message_batches
    /\ lastOp' = [op |-> "webhook"]
    /\ UNCHANGED <<now, steps, cm, cm_file, gmVars, cmHist, batch_lists, admitted, sent, turns,
                   mainVars, bgVars, observed, CONFIG, analysis_gm, followup_queue>>

\* webhook: message_batches[batch_key] = {...} with a new messages list
BatchCreate(h) ==
    /\ handlers[h].pc = "create"
    /\ LET me == handlers[h]
       IN /\ message_batches' = Put(message_batches, BatchKey(h),
                  [ messages |-> h, message_ids |-> <<h>>, username |-> NameOf(me.user),
                    user_id |-> me.user, is_group |-> me.is_group,
                    created |-> me.current_time, last_update |-> me.current_time ])
          /\ batch_lists' = Put(batch_lists, h, <<me.message_text>>)
          /\ admitted' = admitted \cup {h}
          /\ Goto(h, [me EXCEPT !.pc = "read"])
    /\ lastOp' = [op |-> "webhook"]
    /\ UNCHANGED <<now, steps, cm, cm_file, gmVars, cmHist, sent, turns, mainVars, bgVars, observed, CONFIG, analysis_gm, followup_queue>>

\* webhook: batched_messages = message_batches[batch_key]['messages'] (the
\* list object, not a copy), batch_user_id, batch_reply_trigger_id
BatchRead(h) ==
    /\ handlers[h].pc = "read"
    /\ IF Has(message_batches, BatchKey(h))
       THEN Goto(h, [handlers[h] EXCEPT
                        !.batched_messages = message_batches[BatchKey(h)].messages,
                        !.batch_reply_trigger_id = message_batches[BatchKey(h)].message_ids[1],
                        !.pc = "delete"])
       ELSE Goto(h, [handlers[h] EXCEPT !.pc = "crashed"])
    /\ lastOp' = [op |-> "webhook"]
    /\ UNCHANGED <<now, steps, cm, cm_file, gmVars, cmHist, batchVars, sent, turns, mainVars, bgVars, observed, CONFIG, analysis_gm, followup_queue>>

\* webhook: del message_batches[batch_key]
BatchDelete(h) ==
    /\ handlers[h].pc = "delete"
    /\ IF Has(message_batches, BatchKey(h))
       THEN /\ message_batches' = Del(message_batches, BatchKey(h))
            /\ Goto(h, [handlers[h] EXCEPT !.pc = "batch_session"])
       ELSE /\ Goto(h, [handlers[h] EXCEPT !.pc = "crashed"])
            /\ UNCHANGED message_batches
    /\ lastOp' = [op |-> "webhook"]
    /\ UNCHANGED <<now, steps, cm, cm_file, gmVars, cmHist, batch_lists, admitted, sent, turns,
                   mainVars, bgVars, observed, CONFIG, analysis_gm, followup_queue>>

\* webhook: the session is started or updated after the batch is taken
BatchSession(h) ==
    /\ handlers[h].pc = "batch_session"
    /\ LET me == handlers[h]
       IN cm' = maintain_session(cm, me.chat, me.user, NameOf(me.user), me.is_group, CONFIG, now)
    /\ Goto(h, [handlers[h] EXCEPT !.pc = "len"])
    /\ lastOp' = [op |-> "webhook"]
    /\ UNCHANGED <<now, steps, cm_file, gmVars, cmHist, batchVars, sent, turns, mainVars, bgVars, observed, CONFIG, analysis_gm, followup_queue>>

\* webhook: if len(batched_messages) > 1 ... else message_text =
\* batched_messages[0], triggering_message_id = batch_reply_trigger_id
BatchLen(h) ==
    /\ handlers[h].pc = "len"
    /\ LET l == batch_lists[handlers[h].batched_messages]
       IN Goto(h, IF Len(l) > 1
                  THEN [handlers[h] EXCEPT !.pc = "combined"]
                  ELSE [handlers[h] EXCEPT !.message_text = l[1], !.pc = "single"])
    /\ lastOp' = [op |-> "webhook"]
    /\ UNCHANGED <<now, steps, cm, cm_file, gmVars, cmHist, batchVars, sent, turns, mainVars, bgVars, observed, CONFIG, analysis_gm, followup_queue>>

\* the messages a turn answers, by the number of their webhook call
Numbers(l) == [i \in 1..Len(l) |-> l[i].n]

\* webhook: combined_input built from batched_messages, generate_response
CombinedGenerate(h) ==
    /\ handlers[h].pc = "combined"
    /\ \E llm \in LlmOutcomes :
          /\ Goto(h, [handlers[h] EXCEPT !.llm = llm,
                                         !.response_text = generate_response(h, llm),
                                         !.pc = "combined_send"])
          /\ lastOp' = [op |-> "webhook"]
    /\ turns' = Append(turns, [by |-> h, key |-> BatchKey(h), combined |-> TRUE,
                               messages |-> Numbers(batch_lists[handlers[h].batched_messages])])
    /\ UNCHANGED <<now, steps, cm, cm_file, gmVars, cmHist, batchVars, sent, mainVars, bgVars, observed, CONFIG, analysis_gm, followup_queue>>

\* webhook: send_message(chat_id, response_text, reply_to_message_id),
\* outside any try: a failure leaves the handler
CombinedSend(h) ==
    /\ handlers[h].pc = "combined_send"
    /\ \E d \in SendOutcomes :
          IF d = "ok"
          THEN /\ sent' = Append(sent, [chat |-> handlers[h].chat,
                                        text |-> handlers[h].response_text, by |-> h])
               /\ Goto(h, [handlers[h] EXCEPT !.delivery = "ok", !.pc = "combined_append"])
          ELSE /\ Goto(h, [handlers[h] EXCEPT !.delivery = "fail", !.pc = "crashed"])
               /\ UNCHANGED sent
    /\ lastOp' = [op |-> "webhook"]
    /\ UNCHANGED <<now, steps, cm, cm_file, gmVars, cmHist, batchVars, turns, mainVars, bgVars, observed, CONFIG, analysis_gm, followup_queue>>

\* webhook: context_manager.add_message(..., response_text, is_bot=True)
\* after the combined reply was sent
CombinedAppend(h) ==
    /\ handlers[h].pc = "combined_append"
    /\ WebhookAddMessage(cm, handlers[h].chat, None, handlers[h].response_text, TRUE)
    /\ Goto(h, [handlers[h] EXCEPT !.bot_appended = TRUE, !.pc = "done"])
    /\ lastOp' = [op |-> "webhook"]
    /\ UNCHANGED <<now, steps, cm_file, gmVars, reaped, batchVars, sent, turns, mainVars, bgVars, observed, CONFIG, analysis_gm, followup_queue>>

\* webhook, "if keyword_match: try:": the session is started or updated
\* again and generate_response is called with message_text
SingleGenerate(h) ==
    /\ handlers[h].pc = "single"
    /\ LET me == handlers[h]
       IN /\ cm' = maintain_session(cm, me.chat, me.user, NameOf(me.user), me.is_group, CONFIG, now)
          /\ turns' = Append(turns, [by |-> h, key |-> BatchKey(h), combined |-> FALSE,
                                     messages |-> <<me.message_text.n>>])
          /\ \E llm \in LlmOutcomes :
                /\ Goto(h, [me EXCEPT !.llm = llm,
                                      !.response_text = generate_response(h, llm),
                                      !.pc = "single_send"])
                /\ lastOp' = [op |-> "webhook"]
    /\ UNCHANGED <<now, steps, cm_file, gmVars, cmHist, batchVars, sent, mainVars, bgVars, observed, CONFIG, analysis_gm, followup_queue>>

\* webhook: send_message inside the try; a failure goes to the except
SingleSend(h) ==
    /\ handlers[h].pc = "single_send"
    /\ \E d \in SendOutcomes :
          IF d = "ok"
          THEN /\ sent' = Append(sent, [chat |-> handlers[h].chat,
                                        text |-> handlers[h].response_text, by |-> h])
               /\ Goto(h, [handlers[h] EXCEPT !.delivery = "ok", !.pc = "single_append"])
          ELSE /\ Goto(h, [handlers[h] EXCEPT !.delivery = "fail", !.pc = "except"])
               /\ UNCHANGED sent
    /\ lastOp' = [op |-> "webhook"]
    /\ UNCHANGED <<now, steps, cm, cm_file, gmVars, cmHist, batchVars, turns, mainVars, bgVars, observed, CONFIG, analysis_gm, followup_queue>>

\* webhook: context_manager.add_message(..., response_text, is_bot=True)
\* after the reply to a single message was sent
SingleAppend(h) ==
    /\ handlers[h].pc = "single_append"
    /\ WebhookAddMessage(cm, handlers[h].chat, None, handlers[h].response_text, TRUE)
    /\ Goto(h, [handlers[h] EXCEPT !.bot_appended = TRUE, !.pc = "done"])
    /\ lastOp' = [op |-> "webhook"]
    /\ UNCHANGED <<now, steps, cm_file, gmVars, reaped, batchVars, sent, turns, mainVars, bgVars, observed, CONFIG, analysis_gm, followup_queue>>

\* webhook, except Exception: send_message(chat_id, apology); return 'OK'
SendApology(h) ==
    /\ handlers[h].pc = "except"
    /\ \E d \in SendOutcomes :
          IF d = "ok"
          THEN /\ sent' = Append(sent, [chat |-> handlers[h].chat, text |-> Apology, by |-> h])
               /\ Goto(h, [handlers[h] EXCEPT !.pc = "done"])
          ELSE /\ Goto(h, [handlers[h] EXCEPT !.pc = "crashed"])
               /\ UNCHANGED sent
    /\ lastOp' = [op |-> "webhook"]
    /\ UNCHANGED <<now, steps, cm, cm_file, gmVars, cmHist, batchVars, turns, mainVars, bgVars, observed, CONFIG, analysis_gm, followup_queue>>

\* the clock advances, up to the batch timeout
WebhookTick ==
    /\ now < MESSAGE_BATCH_TIMEOUT
    /\ Tick

InitWebhook ==
    /\ InitCommon
    /\ cm = NewContextManager(DefaultMaxMessages, 1)
    /\ gm = NewGlobalMemory(1, 1)

WebhookReceiveStep == \E h \in Handlers : WebhookReceive(h)
WebhookDispatchStep == \E h \in Handlers : WebhookDispatch(h)
BatchCheckStep == \E h \in Handlers : BatchCheck(h)
BatchAppendMessageStep == \E h \in Handlers : BatchAppendMessage(h)
BatchAppendIdsStep == \E h \in Handlers : BatchAppendIds(h)
BatchCreateStep == \E h \in Handlers : BatchCreate(h)
BatchReadStep == \E h \in Handlers : BatchRead(h)
BatchDeleteStep == \E h \in Handlers : BatchDelete(h)
BatchSessionStep == \E h \in Handlers : BatchSession(h)
BatchLenStep == \E h \in Handlers : BatchLen(h)
CombinedGenerateStep == \E h \in Handlers : CombinedGenerate(h)
CombinedSendStep == \E h \in Handlers : CombinedSend(h)
CombinedAppendStep == \E h \in Handlers : CombinedAppend(h)
SingleGenerateStep == \E h \in Handlers : SingleGenerate(h)
SingleSendStep == \E h \in Handlers : SingleSend(h)
SingleAppendStep == \E h \in Handlers : SingleAppend(h)
SendApologyStep == \E h \in Handlers : SendApology(h)

NextWebhook ==
    \/ WebhookReceiveStep \/ WebhookDispatchStep
    \/ BatchCheckStep \/ BatchAppendMessageStep \/ BatchAppendIdsStep
    \/ BatchCreateStep \/ BatchReadStep \/ BatchDeleteStep \/ BatchSessionStep \/ BatchLenStep
    \/ CombinedGenerateStep \/ CombinedSendStep \/ CombinedAppendStep
    \/ SingleGenerateStep \/ SingleSendStep \/ SingleAppendStep \/ SendApologyStep
    \/ WebhookTick

SpecWebhook == InitWebhook /\ [][NextWebhook]_vars

\* ------------------------------------------------------------------------
\* SpecLive: the __main__ block and the periodic saver.  app.run serves
\* requests until the server is stopped; only then does the main thread go
\* on to start the saver thread, a daemon thread that ends with the process.
\* ------------------------------------------------------------------------
\* a request served by app.run: the webhook observes the message in the
\* Global Directory (whose closing write may fail) and appends it
LiveRequest ==
    /\ main_pc = "app_run"
    /\ steps < MaxLiveOps
    /\ \E o \in WriteOutcomes :
          LET p == process_message(gm, gm_file, "c1", "u1", NameOf("u1"), FALSE, o, now)
              r == add_message(cm, "c1", "u1", NameOf("u1"), Text("plain", "", steps), FALSE, now)
          IN /\ gm' = p.st
             /\ gm_file' = p.file
             /\ observed' = Observe(observed, "c1", "u1", p.due)
             /\ cm' = r.st
             /\ appended' = Put(appended, "c1", Append(Get(appended, "c1", <<>>), r.entry))
             /\ marks' = IF r.scheduled
                         THEN Put(marks, <<"c1", "u1">>, Get(marks, <<"c1", "u1">>, 0) + 1)
                         ELSE marks
    /\ steps' = steps + 1
    /\ lastOp' = [op |-> "request"]
    /\ UNCHANGED <<now, cm_file, reaped, webhookVars, mainVars, bgVars, CONFIG, analysis_gm, followup_queue>>

\* app.run returns: the server was stopped
LiveServerStops ==
    /\ main_pc = "app_run"
    /\ main_pc' = "start_saver"
    /\ lastOp' = [op |-> "server_stopped"]
    /\ UNCHANGED <<now, steps, cm, cm_file, gmVars, cmHist, webhookVars, saver_pc, bgVars, observed, CONFIG, analysis_gm, followup_queue>>

\* save_thread = threading.Thread(..., daemon=True); save_thread.start()
LiveStartSaver ==
    /\ main_pc = "start_saver"
    /\ main_pc' = "end_of_main"
    /\ saver_pc' = "sleep"
    /\ lastOp' = [op |-> "saver_started"]
    /\ UNCHANGED <<now, steps, cm, cm_file, gmVars, cmHist, webhookVars, bgVars, observed, CONFIG, analysis_gm, followup_queue>>

\* the main thread has run off the end of the module: the interpreter
\* exits and the daemon thread ends with it
LiveExit ==
    /\ main_pc = "end_of_main"
    /\ main_pc' = "exited"
    /\ saver_pc' = "killed"
    /\ lastOp' = [op |-> "exit"]
    /\ UNCHANGED <<now, steps, cm, cm_file, gmVars, cmHist, webhookVars, bgVars, observed, CONFIG, analysis_gm, followup_queue>>

\* periodic_save_loop: time.sleep(interval) returns
SaverWake ==
    /\ saver_pc = "sleep"
    /\ saver_pc' = "save_context"
    /\ lastOp' = [op |-> "saver_wake"]
    /\ UNCHANGED <<now, steps, cm, cm_file, gmVars, cmHist, webhookVars, main_pc, bgVars, observed, CONFIG, analysis_gm, followup_queue>>

\* periodic_save_loop: context_saved = context_manager.save_memory_if_dirty()
SaverSaveContext ==
    /\ saver_pc = "save_context"
    /\ \E o \in WriteOutcomes :
          LET r == save_memory_if_dirty(cm, cm_file, o, now)
          IN /\ cm' = r.st
             /\ cm_file' = r.file
             /\ lastOp' = [op |-> "periodic_save", tried |-> r.tried, outcome |-> o]
    /\ saver_pc' = "save_global"
    /\ UNCHANGED <<now, steps, gmVars, cmHist, webhookVars, main_pc, bgVars, observed, CONFIG, analysis_gm, followup_queue>>

\* periodic_save_loop: global_saved = global_memory.save_memory_if_dirty();
\* GlobalMemory has no such method, the AttributeError is caught by the
\* loop's except, which sleeps and goes round again
SaverSaveGlobal ==
    /\ saver_pc = "save_global"
    /\ saver_pc' = "sleep"
    /\ lastOp' = [op |-> "periodic_save_error"]
    /\ UNCHANGED <<now, steps, cm, cm_file, gmVars, cmHist, webhookVars, main_pc, bgVars, observed, CONFIG, analysis_gm, followup_queue>>

InitLive ==
    /\ InitCommon
    /\ cm = NewContextManager(DefaultMaxMessages, 1)
    /\ gm = NewGlobalMemory(1, 1)

NextLive ==
    \/ LiveRequest \/ LiveServerStops \/ LiveStartSaver \/ LiveExit
    \/ SaverWake \/ SaverSaveContext \/ SaverSaveGlobal

\* every started thread keeps being scheduled; nothing makes app.run return
LiveFairness ==
    /\ WF_vars(LiveStartSaver) /\ WF_vars(LiveExit)
    /\ WF_vars(SaverWake) /\ WF_vars(SaverSaveContext) /\ WF_vars(SaverSaveGlobal)

SpecLive == InitLive /\ [][NextLive]_vars /\ LiveFairness

\* ------------------------------------------------------------------------
\* SpecMemory: the Memory Records under add_to_memory calls (as made by the
\* /memory add command), appends and clock ticks
\* ------------------------------------------------------------------------
MemoryValues == {"t1", "t2"}

InitMemory ==
    /\ InitCommon
    /\ cm = NewContextManager(MaxWindow, 1)
    /\ gm = NewGlobalMemory(1, 1)

MemoryAddFact ==
    /\ steps < MaxMemoryOps
    /\ \E c \in Chats, k \in {"topics_discussed", "important_facts"}, v \in MemoryValues :
          AddToMemory(c, k, v, None)

MemoryAddUserInfo ==
    /\ steps < MaxMemoryOps
    /\ \E u \in {None, "u1"}, v \in MemoryValues : AddToMemory("c1", "user_info", <<"name", v>>, u)

MemoryAppend ==
    /\ steps < MaxMemoryOps
    /\ AddMessage("c1", "u1", Text("topic", "t1", steps), FALSE)

NextMemory == MemoryAddFact \/ MemoryAddUserInfo \/ MemoryAppend \/ Tick

SpecMemory == InitMemory /\ [][NextMemory]_vars

\* ------------------------------------------------------------------------
\* SpecSummary: one chat receives messages, a summary is stored at some
\* history length, more messages arrive, the clock ticks, and the gate is
\* asked.  The summary text is modelled by what it summarises: upto is the
\* number of messages the chat had received when it was stored, len the
\* length of the chat's list then.
\* ------------------------------------------------------------------------
SummaryWindow == messages_between_updates + SummaryWindowSlack
Received(chat_id) == Len(Get(appended, chat_id, <<>>))
HasSummary(s, chat_id) == Has(s.memory, chat_id) /\ Has(s.memory[chat_id], "conversation_summary")
\* the messages the chat has received since its summary was stored
SinceSummary(chat_id) == Received(chat_id) - cm.memory[chat_id].conversation_summary.upto

InitSummary ==
    /\ InitCommon
    /\ cm = NewContextManager(SummaryWindow, 1)
    /\ gm = NewGlobalMemory(1, 1)

SummaryAppend ==
    /\ IF HasSummary(cm, "c1") THEN SinceSummary("c1") < messages_between_updates
                               ELSE Received("c1") < SummaryWindow
    /\ WebhookAddMessage(cm, "c1", "u1", Text("plain", "", Received("c1")), FALSE)
    /\ lastOp' = [op |-> "add_message", chat |-> "c1", user |-> "u1", exc |-> FALSE]
    /\ UNCHANGED <<now, steps, cm_file, gmVars, reaped, webhookVars, mainVars, bgVars, observed, CONFIG, analysis_gm, followup_queue>>

SummaryStore ==
    /\ ~HasSummary(cm, "c1")
    /\ LET summary == [upto |-> Received("c1"), len |-> Len(Get(cm.conversations, "c1", <<>>))]
           r == save_conversation_summary(cm, cm_file, "c1", summary, "ok", now)
       IN /\ cm' = r.st
          /\ cm_file' = r.file
    /\ lastOp' = [op |-> "save_conversation_summary", chat |-> "c1"]
    /\ UNCHANGED <<now, steps, gmVars, cmHist, webhookVars, mainVars, bgVars, observed, CONFIG, analysis_gm, followup_queue>>

SummaryDue ==
    /\ \E o \in WriteOutcomes :
          LET r == should_create_summary(cm, cm_file, "c1", o, now)
          IN /\ cm' = r.st
             /\ cm_file' = r.file
             /\ lastOp' = [op |-> "should_create_summary", chat |-> "c1", ret |-> r.ret]
    /\ UNCHANGED <<now, steps, gmVars, cmHist, webhookVars, mainVars, bgVars, observed, CONFIG, analysis_gm, followup_queue>>

\* the clock advances once a summary is stored; the messages that follow
\* the summary arrive in one burst, up to the last but one before the gate's
\* count
SummaryTick ==
    /\ HasSummary(cm, "c1")
    /\ SinceSummary("c1") = 0 \/ SinceSummary("c1") >= messages_between_updates - 1
    /\ Tick

NextSummary == SummaryAppend \/ SummaryStore \/ SummaryDue \/ SummaryTick

SpecSummary == InitSummary /\ [][NextSummary]_vars

\* ------------------------------------------------------------------------
\* SpecDirectory: the Global Directory's impression histories under
\* observations, save_user_impression calls and clock ticks
\* ------------------------------------------------------------------------
ImpressionTexts == {"i1", "i2"}

InitDirectory ==
    /\ InitCommon
    /\ cm = NewContextManager(1, 1)
    /\ \E m \in 1..MaxImpressions : gm = NewGlobalMemory(1, m)

DirectoryObserve ==
    /\ steps < MaxObservations
    /\ ProcessMessage("c1", "u1", "ok")

\* u2 has not been observed: the directory does not know the user
DirectorySaveImpression ==
    \E u \in Users, i \in ImpressionTexts, o \in {"ok", "fail_before"} : SaveUserImpression(u, i, o)

NextDirectory == DirectoryObserve \/ DirectorySaveImpression \/ Tick

SpecDirectory == InitDirectory /\ [][NextDirectory]_vars

\* ------------------------------------------------------------------------
\* SpecEviction: a window little larger than the first impression
\* threshold; the observed user's messages are evicted by later ones,
\* impressions are completed and the chat's memory is cleared
\* ------------------------------------------------------------------------
InitEviction ==
    /\ InitCommon
    /\ cm = NewContextManager(ImpressionMinMessages + EvictionWindowSlack, 1)
    /\ gm = NewGlobalMemory(1, 1)

EvictionUserMessage ==
    /\ SentBy("c1", "u1") < MaxEvictionRun
    /\ AddMessage("c1", "u1", Text("plain", "", steps), FALSE)

\* another user writes once the observed user's count is stored
EvictionOtherUser ==
    /\ Has(cm.last_impression_update, <<"c1", "u1">>)
    /\ SentByOthers("c1", "u1") < MaxEvictionOthers
    /\ AddMessage("c1", "u2", Text("plain", "", steps), FALSE)

\* the background task stores a generated text for a pending pair
EvictionComplete ==
    \E key \in get_users_needing_impressions(cm) :
        SaveGeneratedImpression(key[1], key[2], "i2")

\* the chat's record holds this text as the user's impression
Holds(chat_id, user_id, impression) ==
    /\ Has(cm.memory, chat_id)
    /\ Has(cm.memory[chat_id], "user_impressions")
    /\ Get(cm.memory[chat_id].user_impressions, user_id, None) = impression

\* a late completion: no pair is pending, the chat may have no record or a
\* cleared one
EvictionLateComplete ==
    /\ get_users_needing_impressions(cm) = {}
    /\ \E c \in Chats : /\ ~Holds(c, "u1", "i1")
                         /\ SaveGeneratedImpression(c, "u1", "i1")

\* /memory clear on a record that is not in its cleared form
EvictionClear ==
    /\ Has(cm.memory, "c1")
    /\ Has(cm.memory["c1"], "user_impressions")
    /\ ClearMemory("c1", "ok")

NextEviction ==
    \/ EvictionUserMessage \/ EvictionOtherUser
    \/ EvictionComplete \/ EvictionLateComplete \/ EvictionClear

SpecEviction == InitEviction /\ [][NextEviction]_vars

\* ------------------------------------------------------------------------
\* SpecRolling: one user keeps writing to a chat with the default window
\* until the window is full and the user's oldest messages are evicted
\* ------------------------------------------------------------------------
InitRolling ==
    /\ InitCommon
    /\ cm = NewContextManager(DefaultMaxMessages, 1)
    /\ gm = NewGlobalMemory(1, 1)

RollingUserMessage ==
    /\ SentBy("c1", "u1") < MaxRollingRun
    /\ AddMessage("c1", "u1", Text("plain", "", steps), FALSE)

\* another user writes before the observed user reaches the first threshold
RollingOtherUser ==
    /\ SentBy("c1", "u1") < ImpressionMinMessages
    /\ SentByOthers("c1", "u1") < MaxOtherMessages
    /\ AddMessage("c1", "u2", Text("plain", "", steps), FALSE)

NextRolling == RollingUserMessage \/ RollingOtherUser

SpecRolling == InitRolling /\ [][NextRolling]_vars

\* ------------------------------------------------------------------------
\* SpecBackground: one user writes to a chat while MaxRuns background task
\* runs (each webhook call starts one in a thread of its own) execute
\* process_pending_impressions.  The follow-up queue is empty.  The read of
\* the pending list, the LLM request of an entry and the save of its
\* result are separate steps; the calls into the store are taken whole.
\* ------------------------------------------------------------------------
Runs == 1..MaxRuns

InitBackground ==
    /\ InitCommon
    /\ cm = NewContextManager(DefaultMaxMessages, 1)
    /\ gm = NewGlobalMemory(1, 1)

BackgroundUserMessage ==
    /\ SentBy("c1", "u1") < MaxBackgroundRun
    /\ AddMessage("c1", "u1", Text("plain", "", steps), FALSE)

\* webhook: background_thread.start()
BgSpawn(r) ==
    /\ bg[r].pc = "idle"
    /\ bg' = [bg EXCEPT ![r].pc = "start"]
    /\ lastOp' = [op |-> "background"]
    /\ UNCHANGED <<now, steps, cm, cm_file, gmVars, cmHist, webhookVars, mainVars, requests, observed, CONFIG, analysis_gm, followup_queue>>

\* pending = context_manager.get_users_needing_impressions()
BgReadPending(r) ==
    /\ bg[r].pc = "start"
    /\ LET pending == FirstN(ListOf(get_users_needing_impressions(cm)), max_to_process)
       IN bg' = [bg EXCEPT ![r].pending = pending, ![r].i = 1,
                           ![r].pc = IF pending = <<>> THEN "done" ELSE "entry"]
    /\ lastOp' = [op |-> "background"]
    /\ UNCHANGED <<now, steps, cm, cm_file, gmVars, cmHist, webhookVars, mainVars, requests, observed, CONFIG, analysis_gm, followup_queue>>

\* the position after entry i of the loop
NextEntry(run) ==
    IF run.i < Len(run.pending) THEN [run EXCEPT !.i = run.i + 1, !.pc = "entry"]
    ELSE [run EXCEPT !.pc = "done"]

\* get_user_impression_data and the LLM request of generate_user_impression
BgGenerate(r, llm) ==
    /\ bg[r].pc = "entry"
    /\ LET key == bg[r].pending[bg[r].i]
           d == get_user_impression_data(cm, key[1], key[2])
           scheduling == Get(marks, key, 0)
           request == <<key[1], key[2], scheduling>>
       IN IF ~d.found
          THEN /\ bg' = [bg EXCEPT ![r] = NextEntry(bg[r])]
               /\ UNCHANGED requests
          ELSE /\ bg' = [bg EXCEPT ![r].pc = "save", ![r].llm = llm,
                                   ![r].impression = main_generate_user_impression(llm),
                                   ![r].scheduling = scheduling]
               /\ requests' = Put(requests, request, Get(requests, request, 0) + 1)
    /\ lastOp' = [op |-> "background"]
    /\ UNCHANGED <<now, steps, cm, cm_file, gmVars, cmHist, webhookVars, mainVars, observed, CONFIG, analysis_gm, followup_queue>>

\* context_manager.save_generated_impression(chat_id, user_id, impression)
BgSave(r) ==
    /\ bg[r].pc = "save"
    /\ LET key == bg[r].pending[bg[r].i]
           w == save_generated_impression(cm, key[1], key[2], bg[r].impression, now)
       IN /\ cm' = w.st
          /\ lastOp' = [op |-> "background_save", chat |-> key[1], user |-> key[2],
                        llm |-> bg[r].llm, impression |-> bg[r].impression]
    /\ bg' = [bg EXCEPT ![r] = NextEntry(bg[r])]
    /\ UNCHANGED <<now, steps, cm_file, gmVars, cmHist, webhookVars, mainVars, requests, observed, CONFIG, analysis_gm, followup_queue>>

BgSpawnStep == \E r \in Runs : BgSpawn(r)
BgReadPendingStep == \E r \in Runs : BgReadPending(r)
BgGenerateStep == \E r \in Runs, llm \in LlmOutcomes : BgGenerate(r, llm)
BgSaveStep == \E r \in Runs : BgSave(r)

NextBackground ==
    \/ BackgroundUserMessage
    \/ BgSpawnStep \/ BgReadPendingStep \/ BgGenerateStep \/ BgSaveStep

SpecBackground == InitBackground /\ [][NextBackground]_vars

\* ------------------------------------------------------------------------
\* SpecGates: the Global Directory observes messages of two users in two
\* chats, each analysis with a threshold of its own; profiles are read and
\* saved, relationship analyses are saved, the process may start again
\* (with the same configuration).  The writes succeed.
\* ------------------------------------------------------------------------
\* the thresholds of the user, chat and relationship analyses: one of
\* them is larger than the other two
Thresholds == { <<MaxThreshold, 1, 1>>, <<1, MaxThreshold, 1>>, <<1, 1, MaxThreshold>> }
Profiles == { [ personality |-> p, interests |-> <<>>, behavior_patterns |-> <<>>,
                relationship_with_bot |-> "neutral" ] : p \in {"p1"} }
RelationshipData == { << [ user_ids |-> <<"u1", "u2">>, description |-> "r1" ] >> }

InitGates ==
    /\ InitCommon
    /\ cm = NewContextManager(1, 1)
    /\ \E thr \in Thresholds :
          gm = [NewGlobalMemory(1, 1) EXCEPT
                   !.analysis_thresholds = [ messages_for_user_update |-> thr[1],
                                             messages_for_chat_update |-> thr[2],
                                             messages_for_relationship_update |-> thr[3] ]]

\* u1 writes to both chats, u2 to the group chat
GatesObserve ==
    /\ steps < MaxGateMessages
    /\ \E c \in Chats, u \in Users : (c = "c1" \/ u = "u1") /\ ProcessMessage(c, u, "ok")

\* the profile of a pending user is read
GatesGetProfile ==
    \E u \in get_users_needing_profile_updates(gm) : GetUserProfile(u, "ok")

\* a generated profile is saved for a pending user
GatesSaveProfile ==
    \E u \in get_users_needing_profile_updates(gm), p \in Profiles :
        SaveUserProfile(u, p, "ok")

\* a generated analysis is saved for a pending chat
GatesSaveRelationships ==
    \E c \in get_chats_needing_relationship_analysis(gm), d \in RelationshipData :
        SaveRelationshipAnalysis(c, d, "ok")

\* GlobalMemory(config=CONFIG) on the file the process before has written
GatesRestart ==
    /\ lastOp.op = "process_message"
    /\ gm' = [GlobalMemoryInit(1, gm.max_impressions, gm_file) EXCEPT
                 !.analysis_thresholds = gm.analysis_thresholds]
    /\ analysis_gm' = GlobalMemoryInit(DefaultAnalysisThreshold, DefaultMaxSavedImpressions,
                                       gm_file)
    /\ followup_queue' = EmptyDict
    /\ lastOp' = [op |-> "restart"]
    /\ UNCHANGED <<now, steps, cm, cm_file, gm_file, cmHist, webhookVars, mainVars, bgVars,
                   observed, CONFIG>>

NextGates ==
    \/ GatesObserve \/ GatesGetProfile \/ GatesSaveProfile \/ GatesSaveRelationships
    \/ GatesRestart

SpecGates == InitGates /\ [][NextGates]_vars

\* SpecGatesRun: the same within the lifetime of one process
NextGatesRun ==
    \/ GatesObserve \/ GatesGetProfile \/ GatesSaveProfile \/ GatesSaveRelationships

SpecGatesRun == InitGates /\ [][NextGatesRun]_vars

\* ------------------------------------------------------------------------
\* SpecAppend: MaxHandlers webhook calls at a time execute add_message on
\* one chat, each in its own thread, statement by statement: the append
\* to the list, the length test, the slice that builds the trimmed list
\* and the assignment that stores it.  The rest of add_message is taken
\* whole.  A handler that has returned serves the next call.
\* ------------------------------------------------------------------------
InitAppend ==
    /\ InitCommon
    /\ cm = NewContextManager(MaxWindow, 1)
    /\ gm = NewGlobalMemory(1, 1)

\* the user whose message handler h appends
SenderOf(h) == IF h = 1 THEN "u1" ELSE "u2"

\* self.conversations[chat_id_str].append(message_entry)
AppendEntry(h) ==
    /\ handlers[h].pc = "idle"
    /\ Len(Get(appended, "c1", <<>>)) < MaxAppends
    /\ LET text == Text("plain", "", steps)
           entry == MessageEntry(SenderOf(h), NameOf(SenderOf(h)), text, FALSE, now)
       IN /\ cm' = [cm EXCEPT !.conversations =
                       Put(cm.conversations, "c1", Append(Get(cm.conversations, "c1", <<>>), entry))]
          /\ appended' = Put(appended, "c1", Append(Get(appended, "c1", <<>>), entry))
          /\ Goto(h, [IdleHandler EXCEPT !.pc = "len", !.chat = "c1", !.user = SenderOf(h),
                                         !.text = text, !.current_time = now])
    /\ steps' = steps + 1
    /\ lastOp' = [op |-> "add_message_step"]
    /\ UNCHANGED <<now, cm_file, gmVars, marks, reaped, batchVars, sent, turns, mainVars, bgVars,
                   observed, CONFIG, analysis_gm, followup_queue>>

\* if len(self.conversations[chat_id_str]) > self.max_messages
AppendLen(h) ==
    /\ handlers[h].pc = "len"
    /\ Goto(h, [handlers[h] EXCEPT !.pc = IF Len(cm.conversations["c1"]) > cm.max_messages
                                          THEN "slice" ELSE "rest"])
    /\ lastOp' = [op |-> "add_message_step"]
    /\ UNCHANGED <<now, steps, cm, cm_file, gmVars, cmHist, batchVars, sent, turns, mainVars,
                   bgVars, observed, CONFIG, analysis_gm, followup_queue>>

\* self.conversations[chat_id_str][-self.max_messages:]
AppendSlice(h) ==
    /\ handlers[h].pc = "slice"
    /\ Goto(h, [handlers[h] EXCEPT !.pc = "store",
                                   !.trimmed = LastN(cm.conversations["c1"], cm.max_messages)])
    /\ lastOp' = [op |-> "add_message_step"]
    /\ UNCHANGED <<now, steps, cm, cm_file, gmVars, cmHist, batchVars, sent, turns, mainVars,
                   bgVars, observed, CONFIG, analysis_gm, followup_queue>>

\* self.conversations[chat_id_str] = (the slice)
AppendStore(h) ==
    /\ handlers[h].pc = "store"
    /\ cm' = [cm EXCEPT !.conversations = Put(cm.conversations, "c1", handlers[h].trimmed)]
    /\ Goto(h, [handlers[h] EXCEPT !.pc = "rest", !.trimmed = <<>>])
    /\ lastOp' = [op |-> "add_message_step"]
    /\ UNCHANGED <<now, steps, cm_file, gmVars, cmHist, batchVars, sent, turns, mainVars,
                   bgVars, observed, CONFIG, analysis_gm, followup_queue>>

\* _update_memory, _auto_detect_important_info, _maybe_update_user_impression
\* and the return
AppendRest(h) ==
    /\ handlers[h].pc = "rest"
    /\ LET me == handlers[h]
           entry == MessageEntry(me.user, NameOf(me.user), me.text, FALSE, me.current_time)
           r == add_message_rest(cm, entry, me.chat, me.user, NameOf(me.user), me.text, FALSE, now)
       IN /\ cm' = r.st
          /\ marks' = IF r.scheduled
                      THEN Put(marks, <<me.chat, me.user>>, Get(marks, <<me.chat, me.user>>, 0) + 1)
                      ELSE marks
    /\ Goto(h, IdleHandler)
    /\ lastOp' = [op |-> "add_message_step"]
    /\ UNCHANGED <<now, steps, cm_file, gmVars, appended, reaped, batchVars, sent, turns,
                   mainVars, bgVars, observed, CONFIG, analysis_gm, followup_queue>>

NextAppend ==
    \E h \in Handlers :
        AppendEntry(h) \/ AppendLen(h) \/ AppendSlice(h) \/ AppendStore(h) \/ AppendRest(h)

SpecAppend == InitAppend /\ [][NextAppend]_vars

\* ------------------------------------------------------------------------
\* SpecSessionRace: MaxHandlers webhook calls, each in its own thread, each
\* make one call of is_session_active, update_session or end_session on a
\* chat whose session u1 has started, statement by statement: the
\* membership test, the lookup with the expiry test, the del, the writes.
\* A KeyError ends the call with an error.
\* ------------------------------------------------------------------------
SessionCalls == {"is_session_active", "update_session", "end_session"}

InitSessionRace ==
    /\ InitCommon
    /\ cm = start_session(NewContextManager(1, 1), "c1", "u1", NameOf("u1"), 0).st
    /\ gm = NewGlobalMemory(1, 1)

\* the variables no statement of a session call writes
raceFrame == <<steps, cm_file, gmVars, cmHist, batchVars, sent, turns, mainVars, bgVars, observed, CONFIG, analysis_gm, followup_queue>>

\* handler h moves to pc (a return when result is given)
RaceGoto(h, pc, result) ==
    /\ Goto(h, [handlers[h] EXCEPT !.pc = pc, !.result = result])
    /\ lastOp' = [op |-> "session_step", handler |-> h, call |-> handlers[h].call,
                  result |-> result,
                  stored |-> /\ Has(cm'.active_sessions, "c1")
                             /\ Has(cm'.active_sessions["c1"].participants, handlers[h].user)]

\* the handler enters its call
RaceCall(h, call) ==
    /\ handlers[h].pc = "idle"
    /\ Goto(h, [IdleHandler EXCEPT !.pc = IF call = "end_session" THEN "es_check" ELSE "sa_check",
                                   !.chat = "c1", !.user = SenderOf(h), !.call = call])
    /\ lastOp' = [op |-> "session_call"]
    /\ UNCHANGED <<now, cm, raceFrame>>

\* is_session_active: if chat_id_str not in self.active_sessions
RaceActiveCheck(h) ==
    /\ handlers[h].pc = "sa_check"
    /\ UNCHANGED <<now, cm, raceFrame>>
    /\ IF Has(cm.active_sessions, "c1")
       THEN RaceGoto(h, "sa_get", "none")
       ELSE RaceGoto(h, "done", "false")

\* is_session_active: session = self.active_sessions[chat_id_str] and the
\* test of its last activity against the timeout
RaceActiveGet(h) ==
    /\ handlers[h].pc = "sa_get"
    /\ UNCHANGED <<now, cm, raceFrame>>
    /\ IF ~Has(cm.active_sessions, "c1") THEN RaceGoto(h, "done", "error")
       ELSE IF now - cm.active_sessions["c1"].last_activity > cm.session_timeout
       THEN RaceGoto(h, "sa_del", "none")
       ELSE RaceGoto(h, "sa_ret", "none")

\* is_session_active: del self.active_sessions[chat_id_str]; return False
RaceActiveDel(h) ==
    /\ handlers[h].pc = "sa_del"
    /\ UNCHANGED <<now, raceFrame>>
    /\ IF Has(cm.active_sessions, "c1")
       THEN /\ cm' = [cm EXCEPT !.active_sessions = Del(cm.active_sessions, "c1")]
            /\ RaceGoto(h, "done", "false")
       ELSE /\ cm' = cm
            /\ RaceGoto(h, "done", "error")

\* is_session_active: the returns of an active session; update_session
\* goes on with its writes
RaceActiveReturn(h) ==
    /\ handlers[h].pc = "sa_ret"
    /\ UNCHANGED <<now, raceFrame>>
    /\ IF handlers[h].call = "update_session"
       THEN /\ cm' = [cm EXCEPT !.dirty = TRUE]
            /\ RaceGoto(h, "us_activity", "none")
       ELSE /\ cm' = cm
            /\ RaceGoto(h, "done", "true")

\* update_session: self.active_sessions[chat_id_str]["last_activity"] = now
RaceTouchActivity(h) ==
    /\ handlers[h].pc = "us_activity"
    /\ UNCHANGED <<now, raceFrame>>
    /\ IF Has(cm.active_sessions, "c1")
       THEN /\ cm' = [cm EXCEPT !.active_sessions =
                         Put(cm.active_sessions, "c1",
                             [cm.active_sessions["c1"] EXCEPT !.last_activity = now])]
            /\ RaceGoto(h, "us_participant", "none")
       ELSE /\ cm' = cm
            /\ RaceGoto(h, "done", "error")

\* update_session: ...["participants"][user_id_str] = username; return True
RaceTouchParticipant(h) ==
    /\ handlers[h].pc = "us_participant"
    /\ UNCHANGED <<now, raceFrame>>
    /\ IF Has(cm.active_sessions, "c1")
       THEN /\ cm' = [cm EXCEPT !.active_sessions =
                         Put(cm.active_sessions, "c1",
                             [cm.active_sessions["c1"] EXCEPT !.participants =
                                 Put(cm.active_sessions["c1"].participants, handlers[h].user,
                                     NameOf(handlers[h].user))]),
                                !.dirty = TRUE]
            /\ RaceGoto(h, "done", "true")
       ELSE /\ cm' = cm
            /\ RaceGoto(h, "done", "error")

\* end_session: if chat_id_str in self.active_sessions
RaceEndCheck(h) ==
    /\ handlers[h].pc = "es_check"
    /\ UNCHANGED <<now, cm, raceFrame>>
    /\ IF Has(cm.active_sessions, "c1")
       THEN RaceGoto(h, "es_del", "none")
       ELSE RaceGoto(h, "done", "false")

\* end_session: del self.active_sessions[chat_id_str]; return True
RaceEndDel(h) ==
    /\ handlers[h].pc = "es_del"
    /\ UNCHANGED <<now, raceFrame>>
    /\ IF Has(cm.active_sessions, "c1")
       THEN /\ cm' = [cm EXCEPT !.active_sessions = Del(cm.active_sessions, "c1"),
                                !.dirty = TRUE]
            /\ RaceGoto(h, "done", "true")
       ELSE /\ cm' = cm
            /\ RaceGoto(h, "done", "error")

\* the clock runs up to the first reading at which the session is expired
RaceTick ==
    /\ now <= cm.session_timeout
    /\ now' = now + 1
    /\ lastOp' = [op |-> "tick"]
    /\ UNCHANGED <<cm, handlers, raceFrame>>

NextSessionRace ==
    \/ \E h \in Handlers, call \in SessionCalls : RaceCall(h, call)
    \/ \E h \in Handlers :
          \/ RaceActiveCheck(h) \/ RaceActiveGet(h) \/ RaceActiveDel(h) \/ RaceActiveReturn(h)
          \/ RaceTouchActivity(h) \/ RaceTouchParticipant(h)
          \/ RaceEndCheck(h) \/ RaceEndDel(h)
    \/ RaceTick

SpecSessionRace == InitSessionRace /\ [][NextSessionRace]_vars

\* ------------------------------------------------------------------------
\* SpecFlush: the periodic save thread executes save_memory_if_dirty
\* statement by statement (the test of the flag, the write of the
\* document, the reset of the flag) while request handlers mutate the
\* store.  The write succeeds or fails before anything is written.
\* ------------------------------------------------------------------------
InitFlush ==
    /\ InitCommon
    /\ cm = NewContextManager(1, 1)
    /\ gm = NewGlobalMemory(1, 1)
    /\ saver_pc = "not_started"

flushFrame == <<now, steps, gmVars, cmHist, webhookVars, main_pc, bgVars, observed, CONFIG, analysis_gm, followup_queue>>

\* if not self._dirty: return False
FlushTest ==
    /\ saver_pc = "not_started"
    /\ cm.dirty
    /\ saver_pc' = "write"
    /\ lastOp' = [op |-> "flush_test"]
    /\ UNCHANGED <<cm, cm_file, flushFrame>>

\* data_to_save = {...}; json.dump(data_to_save, f)
FlushWrite(outcome) ==
    /\ saver_pc = "write"
    /\ cm_file' = FileAfter(cm_file, cm_document(cm, now), outcome)
    /\ saver_pc' = IF outcome = "ok" THEN "reset" ELSE "not_started"
    /\ lastOp' = [op |-> "flush_write"]
    /\ UNCHANGED <<cm, flushFrame>>

\* self._dirty = False; return True
FlushReset ==
    /\ saver_pc = "reset"
    /\ cm' = [cm EXCEPT !.dirty = FALSE]
    /\ saver_pc' = "not_started"
    /\ lastOp' = [op |-> "flush_reset"]
    /\ UNCHANGED <<cm_file, flushFrame>>

\* a handler starts a session in a chat that has none
FlushStartSession ==
    \E c \in Chats : ~Has(cm.active_sessions, c) /\ StartSession(c, "u1")

\* a handler ends a session
FlushEndSession == \E c \in DOMAIN cm.active_sessions : EndSession(c)

\* a handler adds a fact the chat's record does not hold
FlushAddFact ==
    \E v \in MemoryValues :
        /\ ~InList(Get(Get(cm.memory, "c1", EmptyDict), "important_facts", <<>>), v)
        /\ AddToMemory("c1", "important_facts", v, None)

NextFlush ==
    \/ FlushTest \/ (\E o \in {"ok", "fail_before"} : FlushWrite(o)) \/ FlushReset
    \/ FlushStartSession \/ FlushEndSession \/ FlushAddFact

SpecFlush == InitFlush /\ [][NextFlush]_vars

\* ------------------------------------------------------------------------
\* SpecWrites: the mutations of the request and background paths, each as
\* the whole call the program makes, and the periodic flush
\* ------------------------------------------------------------------------
InitWrites ==
    /\ InitCommon
    /\ cm = NewContextManager(MaxWindow, 1)
    /\ gm = NewGlobalMemory(1, 2)

WritesObserve ==
    /\ steps < MaxPersistOps
    /\ \E o \in WriteOutcomes : ProcessMessage("c1", "u1", o)

WritesAppend ==
    /\ steps < MaxPersistOps
    /\ AddMessage("c1", "u1", Text("plain", "", steps), FALSE)

WritesAddFact ==
    /\ steps < MaxPersistOps
    /\ AddToMemory("c1", "important_facts", "t1", None)

WritesSaveProfile == \E o \in WriteOutcomes : SaveUserProfile("u1", "p1", o)

WritesSaveImpression == \E o \in WriteOutcomes : SaveUserImpression("u1", "i1", o)

\* ContextCache.save_conversation_summary for a chat that has messages
WritesSummary ==
    /\ Has(cm.conversations, "c1")
    /\ \E o \in WriteOutcomes :
          LET r == save_conversation_summary(cm, cm_file, "c1", "s1", o, now)
          IN /\ cm' = r.st
             /\ cm_file' = r.file
    /\ lastOp' = [op |-> "save_conversation_summary", chat |-> "c1"]
    /\ UNCHANGED <<now, steps, gmVars, cmHist, webhookVars, mainVars, bgVars, observed, CONFIG, analysis_gm, followup_queue>>

WritesFlush ==
    /\ steps < MaxPersistOps
    /\ \E o \in WriteOutcomes : SaveMemoryIfDirty(o)

NextWrites ==
    \/ WritesObserve \/ WritesAppend \/ WritesAddFact \/ WritesSaveProfile
    \/ WritesSaveImpression \/ WritesSummary \/ WritesFlush

SpecWrites == InitWrites /\ [][NextWrites]_vars

\* ------------------------------------------------------------------------
\* SpecTurn: webhook calls taken one at a time, for every kind of text
\* message: with or without a keyword, a command, the session end command,
\* sent as a reply, forwarded; to the group chat c1 or to the private chat
\* c2 of user u1.  The configuration is one of Configs.  A call runs
\* through the statements of webhook() as in SpecWebhook; the LLM answers
\* and the replies are delivered.
\* ------------------------------------------------------------------------
\* the settings under which the webhook is run
Configs ==
    { DefaultConfig,
      [DefaultConfig EXCEPT !.auto_reply_to_session_participants = FALSE],
      [DefaultConfig EXCEPT !.auto_join_session = FALSE],
      [DefaultConfig EXCEPT !.include_reply_context = FALSE],
      [DefaultConfig EXCEPT !.message_batching = FALSE] }

\* an inbound update: reply is "none", "bot" (a reply to a message of this
\* bot) or "user" (a reply to a message of somebody else)
Inbound(chat, user, kind, val, reply, forwarded) ==
    [chat |-> chat, user |-> user, kind |-> kind, val |-> val, reply |-> reply,
     forwarded |-> forwarded]

Updates ==
    { Inbound("c1", "u1", "kw", "", "none", FALSE),
      Inbound("c1", "u1", "plain", "", "none", FALSE),
      Inbound("c1", "u1", "end", "", "none", FALSE),
      Inbound("c1", "u1", "command", "memory", "none", FALSE),
      Inbound("c1", "u1", "command", "help", "bot", FALSE),
      Inbound("c1", "u1", "command", "help", "user", FALSE),
      Inbound("c1", "u1", "kw", "", "none", TRUE),
      Inbound("c1", "u2", "plain", "", "none", FALSE),
      Inbound("c2", "u1", "kw", "", "none", FALSE),
      Inbound("c2", "u1", "plain", "", "none", FALSE) }

\* the text a command answers with
CommandResponse(h) == Text("command_response", "", h)

\* formatted_message = "[forwarded from ...]: " + message_text
Forwarded(text) == [text EXCEPT !.kind = "forwarded", !.val = text.kind]

\* webhook, the forwarded_batches block up to "del forwarded_batches[key]":
\* the result is [batches, returned, batched_forwards]
forward_batch(batches, key, formatted_message, user_id, username, is_group, t) ==
    IF Has(batches, key) /\ t - batches[key].last_update < FORWARD_BATCH_TIMEOUT
    THEN [batches |-> [batches EXCEPT ![key] =
                          [@ EXCEPT !.messages = Append(@, formatted_message),
                                    !.last_update = t]],
          returned |-> TRUE, batched_forwards |-> <<>>]
    ELSE [batches |-> Del(batches, key), returned |-> FALSE,
          batched_forwards |-> <<formatted_message>>]

InitTurn ==
    /\ InitState
    /\ CONFIG \in Configs
    /\ cm = NewContextManager(MaxWindow, 1)
    /\ gm = NewGlobalMemory(1, 1)

\* webhook, from request.get_json() to the tests of the command dispatch:
\* the message is observed and appended, the reply context is put in
\* front of the text
TurnReceive(h) ==
    /\ handlers[h].pc = "idle"
    /\ \A g \in Handlers : g < h => Finished(g)
    /\ \E m \in Updates :
          LET text == Text(m.kind, m.val, h)
              message_text == IF m.reply # "none" /\ CONFIG.include_reply_context
                              THEN WithReplyContext(text) ELSE text
              p == process_message(gm, gm_file, m.chat, m.user, NameOf(m.user), FALSE, "ok", now)
          IN /\ gm' = p.st
             /\ gm_file' = p.file
             /\ observed' = Observe(observed, m.chat, m.user, p.due)
             /\ WebhookAddMessage(cm, m.chat, m.user, text, FALSE)
             /\ Goto(h, [IdleHandler EXCEPT
                            !.pc = IF is_command(message_text) THEN "command" ELSE "dispatch",
                            !.chat = m.chat, !.user = m.user, !.text = text,
                            !.message_text = message_text, !.is_group = IsGroup(m.chat),
                            !.is_forwarded = m.forwarded,
                            !.is_reply_to_bot = (m.reply = "bot")])
             /\ lastOp' = [op |-> "receive", by |-> h]
    /\ UNCHANGED <<now, steps, cm_file, reaped, batchVars, sent, turns, mainVars, bgVars, CONFIG, analysis_gm, followup_queue>>

\* webhook, a branch of the command dispatch: the handler of the command
\* runs, the response is sent and appended as a bot message, 'OK' is
\* returned; an exception raised on the way leaves webhook()
CommandHandle(h) ==
    /\ handlers[h].pc = "command"
    /\ LET me == handlers[h]
           s1 == IF me.message_text.val = "memory"
                 THEN add_to_memory(cm, me.chat, "important_facts", "t1", None, now).st
                 ELSE cm
       IN \E o \in {"ok", "raise"} :
            /\ IF o = "ok"
               THEN /\ sent' = Append(sent, [chat |-> me.chat, text |-> CommandResponse(h),
                                             by |-> h])
                    /\ WebhookAddMessage(s1, me.chat, None, CommandResponse(h), TRUE)
                    /\ Goto(h, [me EXCEPT !.pc = "done", !.delivery = "ok",
                                          !.bot_appended = TRUE])
               ELSE /\ cm' = s1
                    /\ Goto(h, [me EXCEPT !.pc = "crashed"])
                    /\ UNCHANGED <<sent, appended, marks>>
            /\ lastOp' = [op |-> "command", by |-> h, outcome |-> o]
    /\ UNCHANGED <<now, steps, cm_file, gmVars, reaped, batchVars, turns, mainVars, bgVars,
                   observed, CONFIG, analysis_gm, followup_queue>>

\* webhook, the forwarded_batches block.  forwarded_batches holds a key
\* only between its creation and its deletion in one call, and the calls
\* are taken one at a time: the dict is empty when the block is entered.
ForwardBatch(h) ==
    /\ handlers[h].pc = "forward"
    /\ LET me == handlers[h]
           r == forward_batch(EmptyDict, me.chat, Forwarded(me.message_text), me.user,
                              NameOf(me.user), me.is_group, now)
           respond == \/ should_respond(me.message_text)
                      \/ me.is_reply_to_bot /\ CONFIG.respond_to_replies
                      \/ /\ me.is_group
                         /\ is_session_active(cm, me.chat, me.user, now).ret
                         /\ CONFIG.auto_reply_to_session_participants
       IN IF ~r.returned /\ Len(r.batched_forwards) > 1 /\ respond
          THEN /\ turns' = Append(turns, [by |-> h, key |-> <<me.chat, "forward">>,
                                          combined |-> TRUE,
                                          messages |-> Numbers(r.batched_forwards)])
               /\ sent' = Append(sent, [chat |-> me.chat, text |-> Reply(h), by |-> h])
               /\ WebhookAddMessage(maintain_session(cm, me.chat, me.user, NameOf(me.user),
                                                     me.is_group, CONFIG, now),
                                    me.chat, None, Reply(h), TRUE)
               /\ Goto(h, [me EXCEPT !.pc = "done", !.delivery = "ok", !.bot_appended = TRUE])
          ELSE /\ Goto(h, [me EXCEPT !.pc = "done"])
               /\ UNCHANGED <<cm, appended, marks, sent, turns>>
    /\ lastOp' = [op |-> "forward", by |-> h]
    /\ UNCHANGED <<now, steps, cm_file, gmVars, reaped, batchVars, mainVars, bgVars, observed,
                   CONFIG, analysis_gm, followup_queue>>

\* the clock advances between two calls, until a session has expired
TurnTick ==
    /\ \A h \in Handlers : ~InFlight(h)
    /\ cm.active_sessions # EmptyDict
    /\ now <= cm.session_timeout
    /\ now' = now + 1
    /\ lastOp' = [op |-> "tick"]
    /\ UNCHANGED <<steps, cm, cm_file, gmVars, cmHist, webhookVars, mainVars, bgVars, observed,
                   CONFIG, analysis_gm, followup_queue>>

TurnReceiveStep == \E h \in Handlers : TurnReceive(h)
CommandHandleStep == \E h \in Handlers : CommandHandle(h)
ForwardBatchStep == \E h \in Handlers : ForwardBatch(h)

NextTurn ==
    \/ TurnReceiveStep \/ CommandHandleStep \/ WebhookDispatchStep
    \/ (\E h \in Handlers : WebhookEndSession(h) /\ handlers'[h].delivery # "fail")
    \/ ForwardBatchStep
    \/ BatchCheckStep \/ BatchCreateStep \/ BatchReadStep \/ BatchDeleteStep
    \/ BatchSessionStep \/ BatchLenStep
    \/ (SingleGenerateStep /\ \A h \in Handlers : handlers'[h].llm # "fail")
    \/ (SingleSendStep /\ \A h \in Handlers : handlers'[h].delivery # "fail")
    \/ SingleAppendStep
    \/ TurnTick

SpecTurn == InitTurn /\ [][NextTurn]_vars

\* ------------------------------------------------------------------------
\* SpecTrigger: should_respond is called with one keyword, for the two
\* texts "privitAnu" and "manuny" and for every text of up to MaxTextLen
\* characters, under every setting of the trigger detection.
\* ------------------------------------------------------------------------
\* the keyword "Anu"
Keyword == <<"A", "n", "u">>
\* the keyword glued to the end of another word
GluedText == <<"p", "r", "i", "v", "i", "t", "A", "n", "u">>
\* a word that holds the letters of the keyword in its middle
InnerText == <<"m", "a", "n", "u", "n", "y">>
TriggerChars == {"A", "a", "n", "u", " ", ",", "/"}
RECURSIVE TextsUpTo(_)
TextsUpTo(n) ==
    IF n = 0 THEN {<<>>}
    ELSE LET shorter == TextsUpTo(n - 1)
         IN shorter \cup {Append(s, c) : s \in shorter, c \in TriggerChars}
TriggerTexts == {GluedText, InnerText} \cup TextsUpTo(MaxTextLen)

InitTrigger ==
    /\ InitCommon
    /\ cm = NewContextManager(1, 1)
    /\ gm = NewGlobalMemory(1, 1)

\* one call per behaviour
ShouldRespond ==
    /\ lastOp = NoOp
    /\ \E text \in TriggerTexts, d, e, c, w, b \in BOOLEAN :
          LET cfg == TriggerConfig(d, e, c, w, b)
          IN lastOp' = [op |-> "should_respond", text |-> text, cfg |-> cfg,
                        ret |-> should_respond_chars(text, <<Keyword>>, cfg)]
    /\ UNCHANGED <<now, steps, cm, cm_file, gmVars, cmHist, webhookVars, mainVars, bgVars,
                   observed, CONFIG, analysis_gm, followup_queue>>

NextTrigger == ShouldRespond

SpecTrigger == InitTrigger /\ [][NextTrigger]_vars

\* ------------------------------------------------------------------------
\* SpecDirty: the calls that touch the persisted fields of the
\* ContextManager (sessions, memory records, impression bookkeeping), the
\* clock and the periodic flush, each call taken whole, for one chat
\* ------------------------------------------------------------------------
InitDirty ==
    /\ InitCommon
    /\ cm = NewContextManager(MaxWindow, 1)
    /\ gm = NewGlobalMemory(1, 1)

DirtyStart == ~Has(cm.active_sessions, "c1") /\ StartSession("c1", "u1")
DirtyQuery == Has(cm.active_sessions, "c1") /\ \E u \in {"u1", None} : IsSessionActive("c1", u)
DirtyTouch == Has(cm.active_sessions, "c1") /\ UpdateSession("c1", "u2")
DirtyEnd == Has(cm.active_sessions, "c1") /\ EndSession("c1")
\* the clock advances while the chat has a session
DirtyTick == Has(cm.active_sessions, "c1") /\ Tick
DirtyAddFact ==
    /\ steps < MaxPersistOps
    /\ AddToMemory("c1", "important_facts", "t1", None)
DirtyAppend ==
    /\ steps < MaxPersistOps
    /\ AddMessage("c1", "u1", Text("plain", "", steps), FALSE)
DirtyFlush ==
    /\ steps < MaxPersistOps
    /\ \E o \in WriteOutcomes : SaveMemoryIfDirty(o)

NextDirty ==
    \/ DirtyStart \/ DirtyQuery \/ DirtyTouch \/ DirtyEnd \/ DirtyAddFact \/ DirtyAppend
    \/ DirtyFlush \/ DirtyTick

SpecDirty == InitDirty /\ [][NextDirty]_vars

\* ------------------------------------------------------------------------
\* SpecRecords: the calls that create or rewrite the Memory Record of a
\* chat, in any order: append, add_to_memory, the memory clear of the
\* '/memory clear' command, and the two stores of the ContextCache
\* ------------------------------------------------------------------------
InitRecords ==
    /\ InitCommon
    /\ cm = NewContextManager(MaxWindow, 1)
    /\ gm = NewGlobalMemory(1, 1)

RecordsAppend ==
    /\ steps < MaxMemoryOps
    /\ \E kind \in StoreKinds : AddMessage("c1", "u1", Text(kind, "t1", steps), FALSE)

RecordsAddFact ==
    /\ steps < MaxMemoryOps
    /\ \E k \in {"topics_discussed", "important_facts"} : AddToMemory("c1", k, "t2", None)

RecordsClear == ClearMemory("c1", "ok")

\* one call of ContextCache.save_conversation_summary
SaveConversationSummary(chat_id, summary, outcome) ==
    LET r == save_conversation_summary(cm, cm_file, chat_id, summary, outcome, now)
    IN /\ cm' = r.st
       /\ cm_file' = r.file
       /\ lastOp' = [op |-> "save_conversation_summary", chat |-> chat_id]
       /\ UNCHANGED <<now, steps, gmVars, cmHist, webhookVars, mainVars, bgVars, observed,
                      CONFIG, analysis_gm, followup_queue>>

\* one call of ContextCache.save_cache_key
SaveCacheKey(chat_id, cache_key, outcome) ==
    LET r == save_cache_key(cm, cm_file, chat_id, cache_key, outcome, now)
    IN /\ cm' = r.st
       /\ cm_file' = r.file
       /\ lastOp' = [op |-> "save_cache_key", chat |-> chat_id]
       /\ UNCHANGED <<now, steps, gmVars, cmHist, webhookVars, mainVars, bgVars, observed,
                      CONFIG, analysis_gm, followup_queue>>

RecordsSummary == SaveConversationSummary("c1", "s1", "ok")
RecordsCacheKey == SaveCacheKey("c1", "k1", "ok")

NextRecords ==
    RecordsAppend \/ RecordsAddFact \/ RecordsClear \/ RecordsSummary \/ RecordsCacheKey

SpecRecords == InitRecords /\ [][NextRecords]_vars

\* ------------------------------------------------------------------------
\* SpecCounts: the message counters of the Global Directory under
\* observations of users, of the bot and of messages without a sender, in
\* a process that may start again on the document it has written
\* ------------------------------------------------------------------------
InitCounts ==
    /\ InitCommon
    /\ cm = NewContextManager(1, 1)
    /\ gm = NewGlobalMemory(MaxCountOps + 1, 1)

\* the senders of the observed messages: users, the bot, nobody
CountsSenders ==
    { [user |-> u, is_bot |-> FALSE] : u \in Users \cup {None} }
      \cup { [user |-> "bot", is_bot |-> TRUE] }

CountsObserve ==
    /\ steps < MaxCountOps
    /\ \E c \in Chats, s \in CountsSenders : ProcessMessageOf(c, s.user, s.is_bot, "ok")

CountsRestart ==
    /\ steps < MaxCountOps
    /\ lastOp.op = "process_message"
    /\ Restart

NextCounts == CountsObserve \/ CountsRestart

SpecCounts == InitCounts /\ [][NextCounts]_vars

\* ------------------------------------------------------------------------
\* SpecAnalysis: the request path observes messages on main.py's
\* GlobalMemory, the background task runs process_pending_analyses, which
\* works on the GlobalMemory of global_analysis.py, and the process may
\* start again
\* ------------------------------------------------------------------------
InitAnalysis ==
    /\ InitCommon
    /\ cm = NewContextManager(1, 1)
    /\ gm = NewGlobalMemory(1, 1)

AnalysisObserve ==
    /\ steps < MaxAnalysisOps
    /\ \E c \in Chats, u \in Users : ProcessMessage(c, u, "ok")

\* process_pending_analyses has returned r
AnalysesProcessed(r) ==
    /\ analysis_gm' = r.st
    /\ gm_file' = r.file
    /\ lastOp' = [op |-> "process_pending_analyses", saved |-> r.saved,
                  wrote |-> (r.file # gm_file)]
    /\ UNCHANGED <<now, steps, cm, cm_file, gm, cmHist, webhookVars, mainVars, bgVars,
                   observed, CONFIG, followup_queue>>

\* run_background_tasks: global_analysis.process_pending_analyses(client)
ProcessPendingAnalyses(llm, profile_data, relationships_data) ==
    AnalysesProcessed(process_pending_analyses(analysis_gm, gm_file, llm, profile_data,
                                               relationships_data, now))

AnalysisProcess ==
    /\ lastOp.op # "process_pending_analyses"
    /\ \E llm \in LlmOutcomes, p \in Profiles, d \in RelationshipData :
          ProcessPendingAnalyses(llm, p, d)

AnalysisRestart ==
    /\ steps < MaxAnalysisOps
    /\ lastOp.op \in {"process_message", "process_pending_analyses"}
    /\ Restart

NextAnalysis == AnalysisObserve \/ AnalysisProcess \/ AnalysisRestart

SpecAnalysis == InitAnalysis /\ [][NextAnalysis]_vars

\* ------------------------------------------------------------------------
\* SpecFollowup: follow-up tasks are scheduled while MaxRuns background
\* task runs (each webhook call starts one in a thread of its own) execute
\* process_followup_queue.  The snapshot of the queue, the evaluation of an
\* entry, its delivery and the final clean-up are separate steps.
\* ------------------------------------------------------------------------
FollowupText == Text("followup", "", 0)
\* the delay_seconds of the analysis
FollowupDelays == {0, initial_delay}

InitFollowup ==
    /\ InitCommon
    /\ cm = NewContextManager(DefaultMaxMessages, 1)
    /\ gm = NewGlobalMemory(1, 1)

fqFrame == <<steps, cm_file, gmVars, mainVars, requests, observed, CONFIG, analysis_gm,
             batchVars, handlers, turns, reaped>>

\* schedule_followup_task(chat_id, user_id, username, previous_response)
ScheduleFollowupTask(chat_id, user_id) ==
    /\ followup_queue' = Put(followup_queue, <<chat_id, user_id, now>>,
                             [chat_id |-> chat_id, user_id |-> user_id,
                              username |-> NameOf(user_id), scheduled_time |-> now])
    /\ steps' = steps + 1
    /\ lastOp' = [op |-> "schedule_followup_task", chat |-> chat_id, user |-> user_id]
    /\ UNCHANGED <<now, cm, cm_file, gmVars, cmHist, webhookVars, mainVars, bgVars, observed,
                   CONFIG, analysis_gm>>

FollowupSchedule ==
    /\ steps < MaxFollowups
    /\ \E u \in Users : ScheduleFollowupTask("c1", u)

\* initial_delay seconds pass
FollowupWait ==
    /\ followup_queue # EmptyDict
    /\ now < MaxFollowupWaits * initial_delay
    /\ now' = now + initial_delay
    /\ lastOp' = [op |-> "tick"]
    /\ UNCHANGED <<cm, cmHist, sent, bg, followup_queue, fqFrame>>

\* the position after the entry of the loop the run is at
NextFollowup(run) ==
    IF run.i < Len(run.pending) THEN [run EXCEPT !.i = run.i + 1]
    ELSE [run EXCEPT !.pc = "fq_cleanup"]

\* keys_to_remove.append(key), and on to the next entry
RemoveLater(run, key) ==
    NextFollowup([run EXCEPT !.keys_to_remove = run.keys_to_remove \cup {key}, !.pc = "fq_entry"])

\* process_followup_queue: current_time = time.time() and
\* list(followup_queue.items())
FqStart(r) ==
    /\ bg[r].pc = "idle"
    /\ LET items == ListOf({ <<k, followup_queue[k]>> : k \in DOMAIN followup_queue })
       IN bg' = [bg EXCEPT ![r].current_time = now, ![r].pending = items, ![r].i = 1,
                           ![r].keys_to_remove = {},
                           ![r].pc = IF items = <<>> THEN "fq_cleanup" ELSE "fq_entry"]
    /\ lastOp' = [op |-> "background"]
    /\ UNCHANGED <<now, cm, cmHist, sent, followup_queue, fqFrame>>

\* one entry of the loop up to the delivery: the time checks,
\* should_send_followup_message (its answer and delay) and
\* generate_followup_message (text tells whether it returned a text)
FqEvaluate(r, should_send, check_delay_seconds, text) ==
    /\ bg[r].pc = "fq_entry"
    /\ LET key == bg[r].pending[bg[r].i][1]
           data == bg[r].pending[bg[r].i][2]
           current_time == bg[r].current_time
       IN bg' = [bg EXCEPT ![r] =
                   IF current_time < data.scheduled_time + initial_delay
                   THEN NextFollowup(bg[r])
                   ELSE IF ~should_send THEN RemoveLater(bg[r], key)
                   ELSE IF current_time < data.scheduled_time + initial_delay
                                             + check_delay_seconds
                   THEN NextFollowup(bg[r])
                   ELSE IF text THEN [bg[r] EXCEPT !.pc = "fq_send"]
                   ELSE RemoveLater(bg[r], key)]
    /\ lastOp' = [op |-> "background"]
    /\ UNCHANGED <<now, cm, cmHist, sent, followup_queue, fqFrame>>

\* send_typing_action, send_message and context_manager.add_message of the
\* entry; a delivery that raises is caught by the except of the loop
FqSend(r, outcome) ==
    /\ bg[r].pc = "fq_send"
    /\ LET key == bg[r].pending[bg[r].i][1]
           data == bg[r].pending[bg[r].i][2]
       IN /\ IF outcome = "ok"
             THEN /\ sent' = Append(sent, [chat |-> data.chat_id, text |-> FollowupText,
                                           task |-> key])
                  /\ WebhookAddMessage(cm, data.chat_id, None, FollowupText, TRUE)
             ELSE UNCHANGED <<sent, cm, cmHist>>
          /\ bg' = [bg EXCEPT ![r] = RemoveLater(bg[r], key)]
          /\ lastOp' = [op |-> "followup", task |-> key, outcome |-> outcome]
    /\ UNCHANGED <<now, followup_queue, fqFrame>>

\* for key in keys_to_remove: if key in followup_queue: del followup_queue[key]
FqCleanup(r) ==
    /\ bg[r].pc = "fq_cleanup"
    /\ followup_queue' = [k \in DOMAIN followup_queue \ bg[r].keys_to_remove |->
                             followup_queue[k]]
    /\ bg' = [bg EXCEPT ![r].pc = "done"]
    /\ lastOp' = [op |-> "process_followup_queue", removed |-> bg[r].keys_to_remove]
    /\ UNCHANGED <<now, cm, cmHist, sent, fqFrame>>

FqStartStep == \E r \in Runs : FqStart(r)
FqEvaluateStep ==
    \E r \in Runs, s \in BOOLEAN, d \in FollowupDelays, x \in BOOLEAN : FqEvaluate(r, s, d, x)
FqSendStep == \E r \in Runs, o \in {"ok", "fail"} : FqSend(r, o)
FqCleanupStep == \E r \in Runs : FqCleanup(r)

NextFollowupQueue ==
    \/ FollowupSchedule \/ FollowupWait
    \/ FqStartStep \/ FqEvaluateStep \/ FqSendStep \/ FqCleanupStep

SpecFollowup == InitFollowup /\ [][NextFollowupQueue]_vars

\* ========================================================================
\* Claims
\* ========================================================================

\* C1: for every chat, after any sequence of add_message calls the chat's
\* list holds at most max_messages entries, and it is exactly the last
\* max_messages entries appended to that chat, in arrival order.
C1_BoundedWindow ==
    /\ DOMAIN cm.conversations = DOMAIN appended
    /\ \A c \in DOMAIN appended :
          /\ Len(cm.conversations[c]) <= cm.max_messages
          /\ cm.conversations[c] = LastN(appended[c], cm.max_messages)
          /\ Len(appended[c]) > cm.max_messages => Len(cm.conversations[c]) = cm.max_messages

\* a chat with a window of two or more has had more appends than its window
C1_Witness ==
    \E c \in DOMAIN appended :
        /\ cm.max_messages >= 2
        /\ Len(appended[c]) > cm.max_messages
        /\ Len(cm.conversations[c]) = cm.max_messages

\* two webhook calls overlapped in time: one was received while the other
\* was still being handled
Concurrent(h1, h2) == h1 \in handlers[h2].peers \/ h2 \in handlers[h1].peers

\* both calls took the batching branch, with clock readings less than the
\* batch timeout apart, for the same (chat, sender) key
SameWindow(h1, h2) ==
    /\ h1 # h2
    /\ handlers[h1].keyword_match /\ handlers[h2].keyword_match
    /\ BatchKey(h1) = BatchKey(h2)
    /\ handlers[h1].pc \notin {"idle", "dispatch", "batch_check"}
    /\ handlers[h2].pc \notin {"idle", "dispatch", "batch_check"}
    /\ handlers[h1].current_time - handlers[h2].current_time < MESSAGE_BATCH_TIMEOUT
    /\ handlers[h2].current_time - handlers[h1].current_time < MESSAGE_BATCH_TIMEOUT

\* the turns generated for a batch key
TurnsOf(key) == {i \in DOMAIN turns : turns[i].key = key}

\* C2 (as stated): two concurrent webhook calls that submit triggered
\* messages for the same (chat, sender) key within the batch timeout, and
\* both return 'OK', end in exactly one flush (one generate_response
\* turn), and that turn holds both messages; there are never two separate
\* flushes.
C2_SingleFlush ==
    \A h1, h2 \in Handlers :
        (SameWindow(h1, h2) /\ Concurrent(h1, h2)
            /\ handlers[h1].pc = "done" /\ handlers[h2].pc = "done") =>
            /\ Cardinality(TurnsOf(BatchKey(h1))) = 1
            /\ \A i \in TurnsOf(BatchKey(h1)) :
                  InList(turns[i].messages, h1) /\ InList(turns[i].messages, h2)

\* how often message m is answered by turn i
Occurrences(i, m) == Cardinality({j \in DOMAIN turns[i].messages : turns[i].messages[j] = m})

\* C3 (as stated): once every webhook call has returned, each message that
\* was put into a batch (by creating it or by appending to an open one) is
\* in exactly one generated turn, once: it is neither dropped nor flushed
\* twice, under any interleaving.
C3_ExactlyOneTurn ==
    (\A h \in Handlers : Finished(h)) =>
        \A m \in admitted :
            /\ Cardinality({i \in DOMAIN turns : InList(turns[i].messages, m)}) = 1
            /\ \A i \in DOMAIN turns : Occurrences(i, m) <= 1

C5_MarkedOnce ==
    SentBy("c1", "u1") = 45 =>
        /\ get_users_needing_impressions(cm) = {<<"c1", "u1">>}
        /\ Get(marks, <<"c1", "u1">>, 0) = 1

\* C5 (amended): with no message evicted and no completion in between, the
\* user is marked at the 10th message and again at the 40th (30 more than
\* the baseline of 10), so after the 45 messages the user was marked
\* exactly twice, and pending() lists exactly the one entry of that
\* (chat, user).
C5_MarkedAtTenAndForty ==
    LET n == SentBy("c1", "u1")
        m == Get(marks, <<"c1", "u1">>, 0)
    IN /\ n < 10 => m = 0 /\ get_users_needing_impressions(cm) = {}
       /\ (10 <= n /\ n < 40) => m = 1
       /\ (40 <= n /\ n <= 45) => m = 2
       /\ (10 <= n /\ n <= 45) => get_users_needing_impressions(cm) = {<<"c1", "u1">>}
       /\ (10 <= n /\ n <= 45) =>
             Get(cm.last_impression_update, <<"c1", "u1">>, 0) = (IF n < 40 THEN 10 ELSE 40)

\* the fresh user has sent 45 messages and was marked twice
C5_Witness ==
    /\ SentBy("c1", "u1") = 45
    /\ Get(marks, <<"c1", "u1">>, 0) = 2
    /\ cm.user_impressions[<<"c1", "u1">>].message_count = 40

\* C6 (as stated): a restart right after a successful save_memory_if_dirty
\* reproduces the chats, each chat's messages in order, and the Memory
\* Records.
C6_RoundTrip ==
    [][ (lastOp'.op = "restart" /\ lastOp'.cm_synced) =>
           /\ cm'.conversations = cm.conversations
           /\ cm'.memory = cm.memory
      ]_vars

\* C7 (as stated): a restart right after a successful _save_memory of the
\* Global Directory reproduces the user records, the chat analytics, the
\* relationship analyses and the last-flagged counters.
C7_RoundTrip ==
    [][ (lastOp'.op = "restart" /\ lastOp'.gm_synced) =>
           /\ gm'.users = gm.users
           /\ gm'.chat_analytics = gm.chat_analytics
           /\ gm'.relationship_analyses = gm.relationship_analyses
           /\ gm'.last_analyses = gm.last_analyses
      ]_vars

\* the last step was a write attempt of the periodic saver that failed
PeriodicWriteFailed ==
    lastOp.op = "periodic_save" /\ lastOp.tried /\ lastOp.outcome # "ok"

\* C8 (as stated): whenever the Conversation Store or the Global Directory
\* is dirty, eventually it is clean again (the periodic saver has written
\* it) unless a write of the saver failed, with no further request needed.
C8_EventuallySaved ==
    /\ cm.dirty ~> (~cm.dirty \/ PeriodicWriteFailed)
    /\ gm.dirty ~> (~gm.dirty \/ PeriodicWriteFailed)

\* C9: a flush whose write fails leaves the store dirty and its in-memory
\* state as it was, raises nothing to its caller, and a flush of a dirty
\* store always attempts the write (so the flush after a failure tries
\* again); for the Global Directory, whose flush closes process_message,
\* the state after the failed flush is the observed message's mutation.
C9_FailedSaveKeepsDirty ==
    [][ /\ (lastOp'.op = "save_memory_if_dirty" /\ lastOp'.tried /\ lastOp'.outcome # "ok")
             => (cm'.dirty /\ cm' = cm /\ ~lastOp'.exc /\ lastOp'.ret = FALSE)
        /\ (lastOp'.op = "save_memory_if_dirty" /\ cm.dirty) => lastOp'.tried
        /\ (lastOp'.op = "save_memory_if_dirty") => ~lastOp'.exc
        /\ (lastOp'.op = "process_message" /\ lastOp'.outcome # "ok")
             => /\ lastOp'.tried /\ gm'.dirty /\ ~lastOp'.exc
                /\ gm' = process_message_body(gm, lastOp'.chat, lastOp'.user,
                                              NameOf(lastOp'.user), FALSE, now).st
        /\ (lastOp'.op = "add_message") => ~lastOp'.exc
      ]_vars

\* a flush has failed and the flush after it has attempted the write again
C9_Witness ==
    /\ lastOp.op = "save_memory_if_dirty"
    /\ lastOp.retry
    /\ lastOp.tried
    /\ cm.memory # EmptyDict

\* a bot message holding the text was appended to the chat's list
BotEntry(chat_id, text) ==
    /\ Has(cm.conversations, chat_id)
    /\ \E i \in DOMAIN cm.conversations[chat_id] :
          /\ cm.conversations[chat_id][i].is_bot
          /\ cm.conversations[chat_id][i].content = text

\* the text was delivered to the chat by handler h
Delivered(h, text) ==
    \E i \in DOMAIN sent : sent[i].by = h /\ sent[i].chat = handlers[h].chat /\ sent[i].text = text

\* C10 (as stated): for a webhook call that has returned and whose delivery
\* calls succeeded: if its LLM call failed, the apology was delivered and
\* no bot message was appended for it; if its LLM call succeeded, the reply
\* was delivered and appended as a bot message.
C10_FailureNotAppended ==
    \A h \in Handlers :
        (handlers[h].pc = "done" /\ handlers[h].delivery = "ok") =>
            /\ handlers[h].llm = "fail" =>
                  /\ Delivered(h, Apology)
                  /\ ~handlers[h].bot_appended
                  /\ ~BotEntry(handlers[h].chat, Apology)
            /\ handlers[h].llm = "ok" =>
                  /\ Delivered(h, Reply(h))
                  /\ handlers[h].bot_appended
                  /\ BotEntry(handlers[h].chat, Reply(h))

\* how often a value is in a list
Count(s, v) == Cardinality({i \in DOMAIN s : s[i] = v})

\* C11: after add_to_memory for topics_discussed or important_facts has
\* returned, the value is in the chat's list exactly once; and when the
\* value was already there, the call leaves the Memory Record as it was
\* except for last_interaction, which becomes the time of the call, and the
\* store is dirty.
C11_AddFactIdempotent ==
    [][ (lastOp'.op = "add_to_memory" /\ ~lastOp'.exc
            /\ lastOp'.category \in {"topics_discussed", "important_facts"}) =>
          LET c == lastOp'.chat
              k == lastOp'.category
          IN /\ \A v \in MemoryValues : Count(cm'.memory[c][k], v) <= 1
             /\ lastOp'.present =>
                   /\ cm'.memory[c] = Put(cm.memory[c], "last_interaction", now)
                   /\ cm'.memory[c][k] = cm.memory[c][k]
                   /\ cm'.dirty
                   /\ \A d \in Chats \ {c} : Get(cm'.memory, d, 0) = Get(cm.memory, d, 0) ]_vars

\* the same value was added a second time, at a later time than the first
C11_Witness ==
    /\ lastOp.op = "add_to_memory"
    /\ lastOp.present
    /\ ~lastOp.exc
    /\ lastOp.category = "important_facts"
    /\ cm.memory[lastOp.chat].last_interaction > 0
    /\ Len(cm.memory[lastOp.chat].important_facts) = 1

\* C12 (as stated): for a chat whose summary was stored at any history
\* length up to max_messages, whose stored count has not been rewritten
\* since, and with at most half an hour elapsed: should_create_summary
\* answers false when 19 messages have been received since the summary was
\* stored, and true when 20 have.
C12_SummaryGate ==
    [][ (lastOp'.op = "should_create_summary" /\ HasSummary(cm, "c1")
            /\ cm.memory["c1"].summary_message_count = cm.memory["c1"].conversation_summary.len
            /\ 2 * (now - cm.memory["c1"].summary_timestamp) <= TicksPerHour) =>
          /\ SinceSummary("c1") = messages_between_updates - 1 => ~lastOp'.ret
          /\ SinceSummary("c1") = messages_between_updates => lastOp'.ret ]_vars

\* the impression history of a user
History(g, user_id) == g.users[user_id].impressions

\* C13: after save_user_impression has returned for a known user, the
\* user's history holds at most max_impressions entries; when the history
\* was full and the call came at a later time than every entry, the history
\* is the old one plus the new entry minus the chronologically oldest
\* entry, so it holds exactly max_impressions entries.
C13_ImpressionHistoryBounded ==
    [][ (lastOp'.op = "save_user_impression" /\ lastOp'.ret) =>
          LET u == lastOp'.user
              old == History(gm, u)
              new == History(gm', u)
          IN /\ Cardinality(DOMAIN new) <= gm.max_impressions
             /\ (Cardinality(DOMAIN old) = gm.max_impressions
                   /\ \A k \in DOMAIN old : k < now) =>
                   /\ DOMAIN new = (DOMAIN old \cup {now}) \ {MinKey(old)}
                   /\ Cardinality(DOMAIN new) = gm.max_impressions
                   /\ \A k \in DOMAIN new \ {now} : new[k] = old[k] ]_vars

\* max_impressions + 1 impressions were saved for a user at increasing
\* times, and the first of them is gone
C13_Witness ==
    /\ lastOp.op = "save_user_impression" /\ lastOp.ret
    /\ gm.max_impressions = 2
    /\ DOMAIN History(gm, lastOp.user) = {1, 2}
    /\ now = 2

\* the chat has a session whose last activity is no older than the timeout
Active(s, chat_id, t) ==
    /\ Has(s.active_sessions, chat_id)
    /\ t - s.active_sessions[chat_id].last_activity <= s.session_timeout

\* the sessions of the chats other than chat_id are left as they were
OthersUntouched(chat_id) ==
    \A d \in Chats \ {chat_id} :
        /\ Has(cm'.active_sessions, d) = Has(cm.active_sessions, d)
        /\ Has(cm.active_sessions, d) => cm'.active_sessions[d] = cm.active_sessions[d]

\* C14: update_session on an Active session returns True, adds the user to
\* the participants, sets last_activity to the time of the call and leaves
\* the session Active; on a chat without an Active session (never started,
\* ended, or older than the timeout) it returns False and the chat has no
\* session afterwards; no other chat's session is touched.
C14_TouchOnlyActive ==
    [][ lastOp'.op = "update_session" =>
          LET c == lastOp'.chat
              u == lastOp'.user
          IN /\ OthersUntouched(c)
             /\ IF Active(cm, c, now)
                THEN /\ lastOp'.ret
                     /\ cm'.active_sessions[c] =
                           [cm.active_sessions[c] EXCEPT
                               !.last_activity = now,
                               !.participants = Put(cm.active_sessions[c].participants, u, NameOf(u))]
                     /\ Active(cm', c, now)
                ELSE /\ ~lastOp'.ret
                     /\ ~Has(cm'.active_sessions, c) ]_vars

\* a second user was added to an Active session by update_session, at a
\* later time than the session's start
C14_Witness ==
    /\ lastOp.op = "update_session" /\ lastOp.ret
    /\ Cardinality(DOMAIN cm.active_sessions[lastOp.chat].participants) = 2
    /\ cm.active_sessions[lastOp.chat].starter # lastOp.user
    /\ cm.active_sessions[lastOp.chat].last_activity = now
    /\ now > 0

\* C15: is_session_active(chat) returns True exactly when the chat has a
\* session whose last activity is no older than the timeout;
\* is_session_active(chat, user) returns True exactly when that holds and
\* the user is one of the participants.
C15_IsActiveAnswer ==
    [][ lastOp'.op = "is_session_active" =>
          LET c == lastOp'.chat
              u == lastOp'.user
          IN lastOp'.ret =
               (/\ Active(cm, c, now)
                /\ (u # None => Has(cm.active_sessions[c].participants, u))) ]_vars

\* is_session_active answered True for a session exactly as old as the
\* timeout
C15_Witness ==
    /\ lastOp.op = "is_session_active" /\ lastOp.ret /\ lastOp.user # None
    /\ now - cm.active_sessions[lastOp.chat].last_activity = cm.session_timeout

\* the observed user's messages in the chat's window
InWindow(chat_id, user_id) == Len(SelectMsgs(Get(cm.conversations, chat_id, <<>>), user_id))

\* C16: across appends (evicting ones included), completions and memory
\* clears, a stored message-count-at-last-generation stays stored and never
\* decreases.
C16_CounterMonotone ==
    [][ \A key \in DOMAIN cm.last_impression_update :
          /\ key \in DOMAIN cm'.last_impression_update
          /\ cm'.last_impression_update[key] >= cm.last_impression_update[key] ]_vars

\* the user's messages in the window have fallen below the stored count,
\* and the user has sent a message since
C16_Witness ==
    /\ Has(cm.last_impression_update, <<"c1", "u1">>)
    /\ InWindow("c1", "u1") < cm.last_impression_update[<<"c1", "u1">>]
    /\ lastOp.op = "add_message" /\ lastOp.user = "u1"

\* C18: save_generated_impression never raises; afterwards the text is the
\* user's impression in the chat's Memory Record and the (chat, user) pair
\* is not returned by get_users_needing_impressions, also when the chat had
\* no record or a cleared one before the call.
C18_CompleteStoresAndClears ==
    [][ lastOp'.op = "save_generated_impression" =>
          /\ ~lastOp'.exc
          /\ Has(cm'.memory, lastOp'.chat)
          /\ Has(cm'.memory[lastOp'.chat], "user_impressions")
          /\ Get(cm'.memory[lastOp'.chat].user_impressions, lastOp'.user, None) = lastOp'.impression
          /\ <<lastOp'.chat, lastOp'.user>> \notin get_users_needing_impressions(cm')
          /\ get_users_needing_impressions(cm') =
                get_users_needing_impressions(cm) \ {<<lastOp'.chat, lastOp'.user>>} ]_vars

\* a pending impression was completed on a chat whose record had been
\* cleared
C18_Witness ==
    /\ lastOp.op = "save_generated_impression"
    /\ lastOp.repaired
    /\ Has(cm.user_impressions, <<lastOp.chat, lastOp.user>>)
    /\ ~cm.user_impressions[<<lastOp.chat, lastOp.user>>].needs_generation
    /\ cm.memory[lastOp.chat].user_impressions[lastOp.user] = "i2"

\* C17: a user with fewer than 10 messages in the chat is never scheduled;
\* the 10th message schedules a generation, and so does every 30th message
\* after a scheduling (the 40th, 70th, ...), however many messages the
\* chat has received: after n >= 10 messages of the user the user has been
\* scheduled 1 + (n - 10) \div 30 times.
C17_ScheduledEveryThirty ==
    LET n == SentBy("c1", "u1")
        m == Get(marks, <<"c1", "u1">>, 0)
    IN m = (IF n < ImpressionMinMessages THEN 0
            ELSE 1 + ((n - ImpressionMinMessages) \div ImpressionDelta))

\* C19: for each scheduling of a (chat, user) impression at most one
\* generation request is sent to the LLM, whichever way the background
\* task runs interleave.
C19_OneRequestPerScheduling ==
    \A request \in DOMAIN requests : requests[request] <= 1

\* the impression text of a user in a chat's Memory Record, None if absent
ImpressionOf(s, chat_id, user_id) ==
    Get(Get(Get(s.memory, chat_id, EmptyDict), "user_impressions", EmptyDict), user_id, None)

\* C20: when the LLM call of a background generation has failed, the run
\* leaves the user's impression text in the chat's Memory Record as it
\* was, and the failure text is not stored as the impression.
C20_FailureStoresNothing ==
    [][ (lastOp'.op = "background_save" /\ lastOp'.llm = "fail") =>
          /\ ImpressionOf(cm', lastOp'.chat, lastOp'.user)
                = ImpressionOf(cm, lastOp'.chat, lastOp'.user)
          /\ ImpressionOf(cm', lastOp'.chat, lastOp'.user) # ImpressionFailureText ]_vars

\* C21: a call of process_message sets the needs-update flag of an analysis
\* exactly when the message count of its user or chat minus the count
\* recorded when it last fired is at least its threshold, and then records
\* the count; so whenever a gate fires, at least threshold messages were
\* observed for it since it last fired (the one of the call included).  The
\* profile gate of the user and the analytics and relationship gates of the
\* chat each have their own threshold and their own count.
C21_GatesFireAtThreshold ==
    [][ lastOp'.op = "process_message" =>
          LET thr == gm.analysis_thresholds
              u == lastOp'.user
              c == lastOp'.chat
              due == lastOp'.due
              user_messages == gm'.users[u].total_messages
              chat_messages == gm'.chat_analytics[c].total_messages
              seen(key) == Get(observed, key, 0) + 1
          IN /\ due.user <=> user_messages - Get(gm.last_analyses.user_analysis, u, 0)
                                 >= thr.messages_for_user_update
             /\ due.chat <=> chat_messages - Get(gm.last_analyses.chat_analysis, c, 0)
                                 >= thr.messages_for_chat_update
             /\ due.rel <=> chat_messages - Get(gm.last_analyses.relationship_analysis, c, 0)
                                 >= thr.messages_for_relationship_update
             /\ due.user => /\ u \in get_users_needing_profile_updates(gm')
                            /\ gm'.last_analyses.user_analysis[u] = user_messages
                            /\ seen(<<"user", u>>) >= thr.messages_for_user_update
             /\ due.chat => /\ c \in get_chats_needing_analysis(gm')
                            /\ gm'.last_analyses.chat_analysis[c] = chat_messages
                            /\ seen(<<"chat", c>>) >= thr.messages_for_chat_update
             /\ due.rel => /\ c \in get_chats_needing_relationship_analysis(gm')
                           /\ gm'.last_analyses.relationship_analysis[c] = chat_messages
                           /\ seen(<<"rel", c>>) >= thr.messages_for_relationship_update ]_vars

\* C22: get_user_profile on a known user leaves the user's
\* needs_profile_update flag false; save_user_profile stores the profile
\* given and save_relationship_analysis the relationships given, and each
\* leaves the needs-update flag of its user or chat false; a user or chat
\* that is not pending becomes pending again only through a
\* process_message call in which its gate fires.
C22_ReadAndSaveClearFlag ==
    [][ LET op == lastOp'.op
            users_pending == get_users_needing_profile_updates(gm)
            chats_pending == get_chats_needing_relationship_analysis(gm)
        IN /\ (op = "get_user_profile" /\ lastOp'.found) =>
                 /\ Get(gm'.users[lastOp'.user], "needs_profile_update", TRUE) = FALSE
                 /\ lastOp'.user \notin get_users_needing_profile_updates(gm')
           /\ (op = "save_user_profile" /\ lastOp'.ret) =>
                 /\ gm'.users[lastOp'.user].profile = lastOp'.profile
                 /\ Get(gm'.users[lastOp'.user], "needs_profile_update", TRUE) = FALSE
                 /\ lastOp'.user \notin get_users_needing_profile_updates(gm')
           /\ op = "save_relationship_analysis" =>
                 /\ Get(gm'.relationship_analyses, lastOp'.chat, EmptyDict)
                       = [ relationships |-> lastOp'.relationships, last_updated |-> now,
                           needs_update |-> FALSE ]
                 /\ lastOp'.chat \notin get_chats_needing_relationship_analysis(gm')
           /\ \A u \in get_users_needing_profile_updates(gm') \ users_pending :
                 op = "process_message" /\ lastOp'.user = u /\ lastOp'.due.user
           /\ \A c \in get_chats_needing_relationship_analysis(gm') \ chats_pending :
                 op = "process_message" /\ lastOp'.chat = c /\ lastOp'.due.rel ]_vars

\* a pending user's profile was saved and a pending chat's relationship
\* analysis had been saved before: neither is pending
C22_Witness ==
    /\ lastOp.op = "save_user_profile" /\ lastOp.ret /\ lastOp.pending
    /\ get_users_needing_profile_updates(gm) = {}
    /\ Has(gm.relationship_analyses, "c1")
    /\ Has(gm.relationship_analyses["c1"], "relationships")
    /\ get_chats_needing_relationship_analysis(gm) = {}

\* C23: when no add_message call is under way, the chat's list holds the
\* messages appended to it in the order the appends took effect, less only
\* the oldest ones beyond max_messages.
C23_ConcurrentAppendsKept ==
    (\A h \in Handlers : handlers[h].pc = "idle") =>
        Get(cm.conversations, "c1", <<>>) = LastN(Get(appended, "c1", <<>>), cm.max_messages)

\* C24: no call of is_session_active, update_session or end_session ends
\* with an error, whatever the other handlers do to the session meanwhile,
\* and an update_session that returns True has its user stored in the
\* chat's session.
C24_SessionCallsAtomic ==
    /\ \A h \in Handlers : handlers[h].result # "error"
    /\ (lastOp.op = "session_step" /\ lastOp.call = "update_session" /\ lastOp.result = "true")
          => lastOp.stored

\* the file holds the store as it is now (the time of the save aside)
Written ==
    /\ cm_file.state = "ok"
    /\ cm_file.doc.memory = cm.memory
    /\ cm_file.doc.active_sessions = cm.active_sessions
    /\ cm_file.doc.user_impressions_data = cm.user_impressions
    /\ cm_file.doc.last_impression_update = cm.last_impression_update

\* C25: when no flush is in progress, every mutation of the store is in
\* the written document or the dirty flag is set: a store that has been
\* mutated and is not dirty equals what the file holds.
C25_MutationNotLost ==
    (saver_pc = "not_started" /\ ~cm.dirty
        /\ (cm.memory # EmptyDict \/ cm.active_sessions # EmptyDict))
      => Written

\* the calls that mutate a store on the request or background path
MutationOps ==
    {"process_message", "save_user_profile", "save_user_impression", "add_message",
     "add_to_memory", "save_conversation_summary"}

\* C26: a mutation of a store (observe, save_profile, record_impression,
\* append, add_fact, Summary Cache store) does not itself write a store
\* file; only the periodic flush changes what is on disk.
C26_MutationsDoNotWrite ==
    [][lastOp'.op \in MutationOps => (cm_file' = cm_file /\ gm_file' = gm_file)]_vars

\* handler h takes a step of a call whose inbound text is a command
CommandCall(h) == is_command(handlers'[h].text) /\ handlers'[h] # handlers[h]

\* C27: a call whose inbound text matches a command prefix is handled by
\* the command dispatch and goes no further: none of its steps changes a
\* session or a batch or generates a reply.
C27_CommandShortCircuits ==
    [][\A h \in Handlers :
          CommandCall(h) =>
             /\ cm'.active_sessions = cm.active_sessions
             /\ message_batches' = message_batches
             /\ turns' = turns
             /\ handlers'[h].pc \in {"command", "done", "crashed"}]_vars

\* the participants of the session of a chat, none when it has no session
ParticipantsOf(s, chat_id) ==
    IF Has(s.active_sessions, chat_id) THEN DOMAIN s.active_sessions[chat_id].participants
    ELSE {}

\* handler h is about to run the session interplay for a text that
\* matches no trigger
Untriggered(h) ==
    /\ handlers[h].pc = "dispatch"
    /\ ~should_respond(handlers[h].message_text)
    /\ ~(handlers[h].is_reply_to_bot /\ CONFIG.respond_to_replies)

\* what the session interplay does for the untriggered message of h
InterplayOutcome(h) ==
    LET me == handlers[h]
        active == Active(cm, me.chat, now)
        participant == active /\ me.user \in ParticipantsOf(cm, me.chat)
    IN IF participant
       THEN /\ Has(cm'.active_sessions, me.chat)
            /\ cm'.active_sessions[me.chat].last_activity = now
            /\ handlers'[h].keyword_match
                  = (CONFIG.auto_reply_to_session_participants \/ ~me.is_group)
       ELSE IF active /\ CONFIG.auto_join_session
       THEN /\ ParticipantsOf(cm', me.chat) = ParticipantsOf(cm, me.chat) \cup {me.user}
            /\ ~handlers'[h].keyword_match
            /\ handlers'[h].pc \in {"done", "forward"}
       ELSE /\ ~handlers'[h].keyword_match
            /\ handlers'[h].pc \in {"done", "forward"}
            /\ Has(cm'.active_sessions, me.chat)
                  => ParticipantsOf(cm', me.chat) = ParticipantsOf(cm, me.chat)

\* a reply is generated only by a call whose message counts as triggered
RepliesOnlyWhenTriggered ==
    turns' # turns => handlers[turns'[Len(turns')].by].keyword_match

C29_SingleMessageBatchAnswered ==
    \A h \in Handlers :
        (handlers[h].pc = "done" /\ handlers[h].keyword_match /\ CONFIG.message_batching)
          => /\ \E i \in 1..Len(turns) : turns[i].by = h /\ turns[i].messages = <<h>>
             /\ \E i \in 1..Len(sent) : sent[i].by = h /\ sent[i].text = Reply(h)

\* C30: when the handler of a command raises, the exception is caught in
\* webhook(), the apology is sent to the chat and the call returns 'OK'.
C30_CommandFailureCaught ==
    \A h \in Handlers :
        (lastOp.op = "command" /\ lastOp.by = h /\ lastOp.outcome = "raise")
          => /\ handlers[h].pc = "done"
             /\ \E i \in 1..Len(sent) : sent[i].by = h /\ sent[i].text = Apology

\* C31: a failure of send_message never leaves webhook(): no call ends
\* with an exception after a delivery of its own has failed.
C31_DeliveryFailureContained ==
    \A h \in Handlers : ~(handlers[h].pc = "crashed" /\ handlers[h].delivery = "fail")

\* should_respond was called for the keyword, case-insensitive, the
\* keyword allowed anywhere in the text
CalledInsensitive ==
    /\ lastOp.op = "should_respond"
    /\ lastOp.cfg.enabled
    /\ ~lastOp.cfg.case_sensitive
    /\ ~lastOp.cfg.must_be_at_beginning

\* C32: with keyword "Anu", case-insensitive and allowed anywhere, the
\* text with the keyword glued to another word triggers when whole words
\* are not asked for, and the word that merely holds the letters of the
\* keyword does not trigger when whole words are asked for.
C32_GluedKeywordMatches ==
    CalledInsensitive =>
        /\ (lastOp.text = GluedText /\ ~lastOp.cfg.whole_word_only) => lastOp.ret
        /\ (lastOp.text = InnerText /\ lastOp.cfg.whole_word_only) => ~lastOp.ret

\* the glued text has triggered
C32_Witness ==
    /\ CalledInsensitive
    /\ lastOp.text = GluedText
    /\ ~lastOp.cfg.whole_word_only
    /\ lastOp.ret

\* C33: whenever the dirty flag of the ContextManager is false, its
\* persisted fields equal the last document written with success (and
\* are still empty when none was written).
C33_CleanMeansWritten ==
    ~cm.dirty =>
        IF cm_file.state = "ok" THEN Written
        ELSE /\ cm.memory = EmptyDict
             /\ cm.active_sessions = EmptyDict
             /\ cm.user_impressions = EmptyDict
             /\ cm.last_impression_update = EmptyDict

\* C34: every Memory Record in the store holds the topics list and the
\* important-facts list, and no append or add_to_memory has failed for a
\* missing field.
C34_RecordsHaveLists ==
    /\ \A c \in DOMAIN cm.memory :
          Has(cm.memory[c], "topics_discussed") /\ Has(cm.memory[c], "important_facts")
    /\ lastOp.op \in {"add_message", "add_to_memory"} => ~lastOp.exc

\* ContextManager.get_memory: the record of the chat, or the empty dict
get_memory(s, chat_id) == Get(s.memory, chat_id, EmptyDict)

\* The record of the chat holds the key with the value as user info, in the
\* chat-level user_info the '/memory info' branch of handle_memory_command
\* lists or in the user_info of any of its users
RecordsUserInfo(s, chat_id, key, value) ==
    LET r == get_memory(s, chat_id)
        info == Get(r, "user_info", EmptyDict)
        users == Get(r, "users", EmptyDict)
    IN \/ Has(info, key) /\ info[key] = value
       \/ \E u \in DOMAIN users :
             /\ Has(users[u], "user_info")
             /\ Has(users[u].user_info, key)
             /\ users[u].user_info[key] = value

\* C35: a step that is add_to_memory(chat, "user_info", {key: value}) called
\* without a user id leaves the key and the value in the chat's Memory
\* Record, where get_memory and '/memory info' find them.
C35_UserInfoWithoutUserRecorded ==
    [][\A v \in MemoryValues :
          ( /\ lastOp'.op = "add_to_memory"
            /\ lastOp'.category = "user_info"
            /\ cm' = add_to_memory(cm, "c1", "user_info", <<"name", v>>, None, now).st )
          => RecordsUserInfo(cm', "c1", "name", v)]_vars

\* C36: every stored session has a non-empty participant set that holds
\* its starter, and a step other than start_session that leaves a session
\* in place (a touch in particular) keeps every participant and the starter.
C36_ParticipantsOnlyGrow ==
    /\ [](\A c \in DOMAIN cm.active_sessions :
            /\ DOMAIN cm.active_sessions[c].participants # {}
            /\ cm.active_sessions[c].starter \in DOMAIN cm.active_sessions[c].participants)
    /\ [][\A c \in DOMAIN cm.active_sessions :
            (Has(cm'.active_sessions, c) /\ lastOp'.op # "start_session")
            => /\ DOMAIN cm.active_sessions[c].participants
                    \subseteq DOMAIN cm'.active_sessions[c].participants
               /\ cm'.active_sessions[c].starter = cm.active_sessions[c].starter]_vars

\* a touch by a second user has joined them to a session another user started
C36_Witness ==
    /\ lastOp.op = "update_session" /\ lastOp.ret
    /\ Has(cm.active_sessions, lastOp.chat)
    /\ cm.active_sessions[lastOp.chat].starter # lastOp.user
    /\ Cardinality(DOMAIN cm.active_sessions[lastOp.chat].participants) = 2

RECURSIVE SumOver(_, _)
\* sum(f[k] for k in S)
SumOver(f, S) ==
    IF S = {} THEN 0
    ELSE LET k == CHOOSE x \in S : TRUE IN f[k] + SumOver(f, S \ {k})

\* the user's message count in the chat
MessageCountIn(g, user_id, chat_id) ==
    LET chats == Get(g.users[user_id], "chats", EmptyDict)
    IN IF Has(chats, chat_id) THEN chats[chat_id].message_count ELSE 0

UserTotalsAgree(g) ==
    \A u \in DOMAIN g.users :
        Get(g.users[u], "total_messages", 0)
          = SumOver([c \in Chats |-> MessageCountIn(g, u, c)], Chats)

ChatTotalsAgree(g) ==
    \A c \in DOMAIN g.chat_analytics :
        g.chat_analytics[c].total_messages
          = SumOver([u \in DOMAIN g.users |-> MessageCountIn(g, u, c)], DOMAIN g.users)

\* the last call observed a message of the bot or one without a sender id
ObservedNoUser(op) ==
    op.op = "process_message" /\ (op.user = None \/ op.is_bot)

C38_OneDirectory ==
    /\ get_users_needing_profile_updates(gm)
          \subseteq get_users_needing_profile_updates(analysis_gm)
    /\ get_chats_needing_relationship_analysis(gm)
          \subseteq get_chats_needing_relationship_analysis(analysis_gm)
    /\ lastOp.op = "process_pending_analyses"
          => /\ \A u \in lastOp.saved :
                   Has(gm.users, u) /\ gm.users[u].profile = analysis_gm.users[u].profile
             /\ lastOp.wrote => gm_file.doc.users = gm.users

\* the follow-up messages delivered for the task
FollowupsSent(key) == SelectSeq(sent, LAMBDA m : "task" \in DOMAIN m /\ m.task = key)

\* C39: for each scheduled follow-up task at most one follow-up message is
\* delivered and appended to the store, also when several background runs
\* process the queue at the same time, and a run that has finished has
\* removed the tasks it answered, dropped or saw raise.
C39_OneFollowupPerTask ==
    /\ \A c \in Chats, u \in Users, t \in 0..(MaxFollowupWaits * initial_delay) :
          Len(FollowupsSent(<<c, u, t>>)) <= 1
    /\ \A c \in DOMAIN appended :
          Len(SelectSeq(appended[c], LAMBDA e : e.is_bot)) <= MaxFollowups
    /\ lastOp.op = "process_followup_queue" => lastOp.removed \cap DOMAIN followup_queue = {}

\* the stored summary record of the chat: text, generation timestamp and
\* message count at generation
SummaryRecord(s, chat_id) ==
    LET r == Get(s.memory, chat_id, EmptyDict)
    IN [ text |-> Get(r, "conversation_summary", None),
         timestamp |-> Get(r, "summary_timestamp", NoneTime),
         count |-> Get(r, "summary_message_count", NoneTime) ]

\* C40: should_create_summary changes nothing in the stored summary record,
\* and a call that directly follows another call returns the same answer.
C40_DueIsPure ==
    [][lastOp'.op = "should_create_summary"
          => /\ SummaryRecord(cm', "c1") = SummaryRecord(cm, "c1")
             /\ lastOp.op = "should_create_summary" => lastOp'.ret = lastOp.ret]_vars

====
